---- MODULE Spec2Model ----
(***************************************************************************)
(* Model of src/parser_agent/hn_part_time_jobs.py: the item cache         *)
(* (_ITEM_CACHE), fetch_item and the wave-by-wave traversal of            *)
(* fetch_comments over a ThreadPoolExecutor.                               *)
(***************************************************************************)
EXTENDS Integers, Sequences, FiniteSets, TLC

(* ------------------------------------------------------------------ *)
(* Bounds of the model                                                 *)
(* ------------------------------------------------------------------ *)
MaxWorkers == 2     \* max_workers is drawn from 1..MaxWorkers
MaxRuns == 2        \* runs of main made by one process
MaxFailures == 2    \* fetches of one process that do not yield a dict
MaxWaveCount == 5   \* the ghost wave counter saturates here
MaxCalls == 3       \* sequential calls of fetch_item in the single-thread view

(* ------------------------------------------------------------------ *)
(* The item source: what GET item/<id>.json answers                    *)
(* ------------------------------------------------------------------ *)
Root == 100
Items == 100..105

NoKids == [i \in Items |-> <<>>]

World(kids, notext, deleted, dead) ==
    [kids |-> kids @@ NoKids, text |-> (Items \ {Root}) \ notext,
     deleted |-> deleted, dead |-> dead]

\* The item graphs explored. Trees first, then graphs with shared or
\* repeated children and ID cycles.
Worlds ==
    { World(100 :> <<101, 102>> @@ 102 :> <<103>>, {}, {}, {}),
      World(100 :> <<101>> @@ 101 :> <<102>> @@ 102 :> <<103>>, {102}, {}, {}),
      World(100 :> <<101, 102, 103>> @@ 101 :> <<104>> @@ 102 :> <<105>>, {}, {101}, {102}),
      World(100 :> <<101, 102, 103>> @@ 103 :> <<104>>, {104}, {}, {}),
      World(100 :> <<>>, {}, {}, {}),
      World(100 :> <<101, 102>> @@ 101 :> <<103>> @@ 102 :> <<103>>, {}, {}, {}),
      World(100 :> <<101, 102, 101>> @@ 101 :> <<103, 103>>, {}, {}, {}),
      World(100 :> <<101, 102>> @@ 101 :> <<102>> @@ 102 :> <<101>>, {}, {}, {}),
      World(100 :> <<101>> @@ 101 :> <<102>> @@ 102 :> <<101, 100>>, {}, {}, {102}) }

Range(s) == {s[k] : k \in 1..Len(s)}

VARIABLES
    world,            \* the item graph served by the API (never changes)
    include_replies,  \* argument of fetch_comments
    max_workers,      \* argument of fetch_comments
    ITEM_CACHE,       \* _ITEM_CACHE: item id -> cached payload
    pc,               \* position of the coordinating thread
    comments,         \* the list fetch_comments builds and returns
    todo_ids,         \* the next wave
    futures,          \* the futures of the current wave, in submission order
    cur,              \* future whose kids the coordinator is walking (0: none)
    kidx,             \* index of the next kid to examine in that walk
    comment_ids,      \* the story's kids, as main passes them
    runs,             \* runs of main started so far in this process
    failures,         \* fetches so far that did not yield a dict
    waveNo,           \* waves submitted by the current run (saturating)
    sched,            \* per id: times submitted by the current run (saturating)
    prevResult,       \* what the earlier runs returned, oldest first
    story,            \* main: what fetch_item returned for the story
    results,          \* main: the filtered results
    keywords,         \* main: args.keywords (<<>>: not given)
    written,          \* main: the output has been printed or written
    cancelled,        \* the run was interrupted from outside
    skipped,          \* fetches of the current traversal that returned None
    hits,             \* find_latest_thread: the hits of the search answer
    thread,           \* main: the hit find_latest_thread returned
    \* fetch_item seen alone, called sequentially, with the session's retries
    fi_pc,            \* "idle", "sending" (in session.get) or "returned"
    fi_id,            \* item_id of the current call
    responses,        \* what the attempts of the current call's GET met
    fi_ret,           \* what the current call returned
    calls,            \* calls of fetch_item made so far
    returnedBefore,   \* id -> the item an earlier call returned for it
    failedBefore,     \* ids for which an earlier call returned no dict
    cacheAtCall,      \* _ITEM_CACHE as the current call found it
    \* the text functions seen alone, applied to one input
    tx_in,            \* the text given
    tx_kw,            \* the extra keywords given to compile_keywords
    tx_op,            \* the function applied ("none": not yet)
    tx_out,           \* what it returned
    \* the research graph (src/agents/research_agent)
    node,             \* the node the graph is at ("START" before invoke)
    gstate,           \* the state dict of the graph, a function of its keys
    trace,            \* the nodes started so far, in order
    r_pc,             \* research: "generate", "collect" or "returned"
    queries,          \* research: queries
    rfutures,         \* research: future_to_query, in insertion order
    rcur,             \* research: the future the result loop is at
    all_results,      \* research: all_results
    searches,         \* calls of tavily_client.search made so far
    q_reply,          \* what query_chain.invoke answered
    a_reply,          \* what analysis_chain.invoke answered
    f_reply           \* what findings_chain.invoke answered

vars == <<world, include_replies, max_workers, ITEM_CACHE, pc, comments,
          todo_ids, futures, cur, kidx, comment_ids, runs, failures, waveNo,
          sched, prevResult, story, results, keywords, written, cancelled,
          skipped, hits, thread, fi_pc, fi_id, responses, fi_ret, calls,
          returnedBefore, failedBefore, cacheAtCall, tx_in, tx_kw, tx_op,
          tx_out, node, gstate, trace, r_pc, queries, rfutures, rcur,
          all_results, searches, q_reply, a_reply, f_reply>>

\* the state of the text functions seen alone
xvars == <<tx_in, tx_kw, tx_op, tx_out>>

\* the state of the research graph
gvars == <<node, gstate, trace, r_pc, queries, rfutures, rcur, all_results,
           searches, q_reply, a_reply, f_reply>>

\* the state of the stand-alone views other than fetch_item's
svars == <<xvars, gvars>>

\* the state of the sequential view of fetch_item
fvars == <<fi_pc, fi_id, responses, fi_ret, calls, returnedBefore,
           failedBefore, cacheAtCall>>

\* the state of main and fetch_comments, the cache apart
tvars == <<world, include_replies, max_workers, pc, comments, todo_ids,
           futures, cur, kidx, comment_ids, runs, failures, waveNo, sched,
           prevResult, story, results, keywords, written, cancelled, skipped,
           hits, thread>>

\* the search answer and the thread chosen from it
hvars == <<hits, thread>>

\* what main holds beside the traversal
mvars == <<story, results, keywords, written, cancelled, skipped>>

(* ------------------------------------------------------------------ *)
(* Pure helpers                                                        *)
(* ------------------------------------------------------------------ *)
Min(a, b) == IF a < b THEN a ELSE b

\* Faulty variant of Dedup: the last occurrence of an id is the one kept.
Dedup_lastKept(s) ==
    LET F[k \in 0..Len(s)] ==
            IF k = 0 THEN <<>>
            ELSE IF s[k] \in {s[j] : j \in (k + 1)..Len(s)} THEN F[k - 1]
                 ELSE Append(F[k - 1], s[k])
    IN F[Len(s)]

\* list(dict.fromkeys(s)): first occurrences, in order
Dedup(s) ==
    LET F[k \in 0..Len(s)] ==
            IF k = 0 THEN <<>>
            ELSE IF s[k] \in Range(F[k - 1]) THEN F[k - 1]
                 ELSE Append(F[k - 1], s[k])
    IN F[Len(s)]

Count(s, x) == Cardinality({k \in 1..Len(s) : s[k] = x})

\* What one GET of an item can come to: a dict payload, a RequestException
\* (after the session's retries), a null body, or a body that is JSON but
\* neither a dict nor falsy.
FetchOutcomes == {"dict", "exc", "null", "junk"}

\* Faulty variant of CacheHit: the cache is never consulted.
CacheHit_never(cache, id) == FALSE

\* `if item_id in _ITEM_CACHE`
CacheHit(cache, id) == id \in DOMAIN cache

\* Faulty variant of CacheStore: the cache holds two entries at most, a store
\* into a full cache drops the entry of the smallest other id.
CacheStore_evict(cache, id, kind, data) ==
    IF kind # "dict" THEN cache
    ELSE LET c == (id :> data) @@ cache
             others == DOMAIN c \ {id}
         IN IF Cardinality(DOMAIN c) <= 2 THEN c
            ELSE LET out == CHOOSE a \in others : \A b \in others : a <= b
                 IN [i \in DOMAIN c \ {out} |-> c[i]]

\* Faulty variant of CacheStore: the payload is stored under a key that is not
\* the id that was fetched.
CacheStore_otherKey(cache, id, kind, data) ==
    IF kind = "dict" THEN (Root :> data) @@ cache ELSE cache

\* Faulty variants of CacheStore: whatever came back is stored; the store
\* replaces the dict.
CacheStore_always(cache, id, kind, data) == (id :> data) @@ cache

CacheStore_clobber(cache, id, kind, data) ==
    IF kind = "dict" THEN (id :> data) ELSE cache

\* `_ITEM_CACHE[item_id] = data`, done only for a dict
CacheStore(cache, id, kind, data) ==
    IF kind = "dict" THEN (id :> data) @@ cache ELSE cache

\* Faulty variant of ReturnKind: the RequestException is not caught, so
\* future.result() raises in the coordinating thread.
ReturnKind_uncaught(outcome) ==
    CASE outcome = "dict" -> "dict"
      [] outcome = "null" -> "none"
      [] OTHER -> "junk"

\* What fetch_item returns for an outcome: the payload, or None both for a
\* caught RequestException and for a null body.
ReturnKind(outcome) ==
    CASE outcome = "dict" -> "dict"
      [] outcome = "junk" -> "junk"
      [] OTHER -> "none"

\* Faulty variants of Discarded: no filter at all; the dead flag forgotten.
Discarded_never(w, it) == FALSE

Discarded_deleted_only(w, it) == it \in w.deleted

\* `if result.get("deleted") or result.get("dead"): continue`
Discarded(w, it) == it \in w.deleted \/ it \in w.dead

\* `if result.get("text")`
HasText(w, it) == it \in w.text

\* Faulty variants of WalksKids: only an item with text has its kids walked;
\* the include_replies flag is ignored.
WalksKids_textOnly(w, it, replies) ==
    replies /\ w.kids[it] # <<>> /\ HasText(w, it)

WalksKids_always(w, it, replies) == w.kids[it] # <<>>

\* `if include_replies and result.get("kids")`
WalksKids(w, it, replies) == replies /\ w.kids[it] # <<>>

\* Faulty variant of IsNewChild: the cache is not looked at, every listed child
\* goes to the next wave.
IsNewChild_always(cache, child) == TRUE

\* Faulty variant of IsNewChild: the cache test inverted.
IsNewChild_inverted(cache, child) == CacheHit(cache, child)

\* `if child not in _ITEM_CACHE`
IsNewChild(cache, child) == ~CacheHit(cache, child)

\* Faulty variant of WaveComplete: the loop does not wait for every future.
WaveComplete_noBarrier == cur = 0

\* the for loop over as_completed(futures) has consumed every future
WaveComplete == cur = 0 /\ \A f \in 1..Len(futures) : futures[f].st = "processed"

\* fetches being executed by pool threads
Running == {f \in 1..Len(futures) : futures[f].st = "running"}
Queued == {f \in 1..Len(futures) : futures[f].st = "queued"}

\* Faulty variant of WorkerFree: a thread per submitted work item.
WorkerFree_unbounded == TRUE

\* a pool thread is free to take the next work item
WorkerFree == Cardinality(Running) < max_workers

\* A future of the wave: the id it fetches, its progress, how its GET ended
\* ("hit": answered from the cache, "": not yet), what fetch_item returned.
NewFuture(cid) ==
    [cid |-> cid, st |-> "queued", out |-> "", kind |-> "none", data |-> cid]

EmptyCache == [i \in {} |-> Root]

\* `todo_ids = []` once the wave has been submitted
ResetTodo(submitted) == <<>>

\* Faulty variant of LoopContinues: the loop never tests its list.
LoopContinues_always(todo) == TRUE

\* `while todo_ids:`
LoopContinues(todo) == todo # <<>>

\* no call of fetch_item made in the sequential view
FetchItemIdle ==
    /\ fi_pc = "idle"
    /\ fi_id = Root
    /\ responses = <<>>
    /\ fi_ret = [kind |-> "none", data |-> Root, out |-> ""]
    /\ calls = 0
    /\ returnedBefore = EmptyCache
    /\ failedBefore = {}
    /\ cacheAtCall = EmptyCache

\* no text function applied
TextIdle ==
    /\ tx_in = <<>>
    /\ tx_kw = <<>>
    /\ tx_op = "none"
    /\ tx_out = <<>>

\* a chain that has not been invoked
NoReply == [raised |-> FALSE, raw |-> <<>>, content |-> <<>>]

\* the research graph has not been invoked
ResearchIdle ==
    /\ gstate = <<>>
    /\ trace = <<>>
    /\ r_pc = "generate"
    /\ queries = <<>>
    /\ rfutures = <<>>
    /\ rcur = 0
    /\ all_results = <<>>
    /\ searches = 0
    /\ q_reply = NoReply
    /\ a_reply = NoReply
    /\ f_reply = NoReply

\* no hit: what thread holds before find_latest_thread has returned one
NoThread == [title |-> <<>>, objectID |-> 0]

\* main has fetched, filtered and written nothing
MainIdle ==
    /\ hits = <<>>
    /\ thread = NoThread
    /\ story = "unset"
    /\ results = <<>>
    /\ keywords = <<>>
    /\ written = FALSE
    /\ cancelled = FALSE
    /\ skipped = 0

(* ------------------------------------------------------------------ *)
(* Initial state: a fresh process, nothing fetched yet                 *)
(* ------------------------------------------------------------------ *)
Init ==
    /\ world \in Worlds
    /\ include_replies \in BOOLEAN
    /\ max_workers \in 1..MaxWorkers
    /\ ITEM_CACHE = EmptyCache
    /\ pc = "search"
    /\ comments = <<>>
    /\ todo_ids = <<>>
    /\ futures = <<>>
    /\ cur = 0
    /\ kidx = 0
    /\ comment_ids = <<>>
    /\ runs = 1
    /\ failures = 0
    /\ waveNo = 0
    /\ sched = [i \in Items |-> 0]
    /\ prevResult = <<>>
    /\ MainIdle
    /\ FetchItemIdle
    /\ TextIdle
    /\ node = "idle"
    /\ ResearchIdle

(* ------------------------------------------------------------------ *)
(* Texts: a text is a sequence of one-character strings                *)
(* ------------------------------------------------------------------ *)
UpperCase == <<"A", "B", "C", "D", "E", "F", "G", "H", "I", "J", "K", "L", "M", "N", "O", "P", "Q", "R", "S", "T", "U", "V", "W", "X", "Y", "Z">>

LowerCase == <<"a", "b", "c", "d", "e", "f", "g", "h", "i", "j", "k", "l", "m", "n", "o", "p", "q", "r", "s", "t", "u", "v", "w", "x", "y", "z">>

Digits == {"0", "1", "2", "3", "4", "5", "6", "7", "8", "9"}

\* re.IGNORECASE compares letters without their case
Lower(c) ==
    IF \E k \in DOMAIN UpperCase : UpperCase[k] = c
    THEN LowerCase[CHOOSE k \in DOMAIN UpperCase : UpperCase[k] = c]
    ELSE c

\* the characters \w matches; \b lies between one of them and another one
WordChars == Range(UpperCase) \cup Range(LowerCase) \cup Digits \cup {"_"}

\* the characters \s matches and str.strip removes
Whitespace == {" ", "\n", "\t"}

IsWordAt(t, k) == k \in 1..Len(t) /\ t[k] \in WordChars

\* \b just before position k of t
Boundary(t, k) == IsWordAt(t, k - 1) # IsWordAt(t, k)

\* the literal lit stands at position k of t, case apart
LitAt(lit, t, k) ==
    /\ k + Len(lit) - 1 <= Len(t)
    /\ \A j \in 1..Len(lit) : Lower(t[k + j - 1]) = Lower(lit[j])

\* A compiled pattern is the set of literals it spells out and whether it is
\* wrapped in \b...\b. The alternatives of a pattern that match at k:
MatchAt(p, t, k) ==
    {lit \in p.lits :
        /\ LitAt(lit, t, k)
        /\ p.word => (Boundary(t, k) /\ Boundary(t, k + Len(lit)))}

\* b occurs in a as a run of consecutive characters
Contains(a, b) ==
    \E k \in 1..(Len(a) - Len(b) + 1) : SubSeq(a, k, k + Len(b) - 1) = b

\* str.lower()
LowerText(t) == [k \in DOMAIN t |-> Lower(t[k])]

\* the positions reached from a position of H by skipping whitespace (\s*)
SkipSpace(t, H) ==
    {q \in 1..(Len(t) + 1) :
        \E h \in H : h <= q /\ \A j \in h..(q - 1) : t[j] \in Whitespace}

\* \b\d{1,2}[\s-]?hours?\s*/\s*week\b at position k of t: the lengths of
\* the matches that start there (at most one: no part of the pattern can
\* give back a character to the next)
HoursLens(t, k) ==
    LET D == {d \in {k + 1, k + 2} : \A j \in k..(d - 1) : j <= Len(t) /\ t[j] \in Digits}
        S == D \cup {d + 1 : d \in {x \in D : x <= Len(t) /\ t[x] \in Whitespace \cup {"-"}}}
        H == {h + 4 : h \in {x \in S : LitAt(<<"h", "o", "u", "r">>, t, x)}}
        P == H \cup {h + 1 : h \in {x \in H : x <= Len(t) /\ Lower(t[x]) = "s"}}
        L == {q + 1 : q \in {x \in SkipSpace(t, P) : x <= Len(t) /\ t[x] = "/"}}
        E == {q + 4 : q \in {x \in SkipSpace(t, L) : LitAt(<<"w", "e", "e", "k">>, t, x)}}
    IN IF Boundary(t, k) THEN {e - k : e \in {x \in E : Boundary(t, x)}} ELSE {}

\* the lengths of the matches of pattern p that start at position k of t
MatchLens(p, t, k) ==
    IF p.hours THEN HoursLens(t, k) ELSE {Len(lit) : lit \in MatchAt(p, t, k)}

\* pattern.search(text): the leftmost match as [start, end) counted from 0,
\* start = -1 when there is none
Search(p, t) ==
    LET K == {k \in 1..Len(t) : MatchLens(p, t, k) # {}}
    IN IF K = {} THEN [start |-> -1, end |-> -1]
       ELSE LET k == CHOOSE a \in K : \A b \in K : a <= b
                len == CHOOSE a \in MatchLens(p, t, k) :
                          \A b \in MatchLens(p, t, k) : a >= b
            IN [start |-> k - 1, end |-> k - 1 + len]

\* str.strip()
RECURSIVE Strip(_)
Strip(t) ==
    IF t = <<>> THEN t
    ELSE IF t[1] \in Whitespace THEN Strip(Tail(t))
    ELSE IF t[Len(t)] \in Whitespace THEN Strip(SubSeq(t, 1, Len(t) - 1))
    ELSE t

\* the entities html.unescape meets in the texts of the model
Entities ==
    { [name |-> <<"&", "a", "m", "p", ";">>, char |-> "&"],
      [name |-> <<"&", "l", "t", ";">>, char |-> "<"],
      [name |-> <<"&", "g", "t", ";">>, char |-> ">"] }

EntityAt(t, k) ==
    {e \in Entities :
        /\ k + Len(e.name) - 1 <= Len(t)
        /\ SubSeq(t, k, k + Len(e.name) - 1) = e.name}

\* html.unescape(text): one pass, left to right
RECURSIVE Unescape(_)
Unescape(t) ==
    IF t = <<>> THEN t
    ELSE IF EntityAt(t, 1) # {}
         THEN LET e == CHOOSE x \in EntityAt(t, 1) : TRUE
              IN <<e.char>> \o Unescape(SubSeq(t, Len(e.name) + 1, Len(t)))
         ELSE <<t[1]>> \o Unescape(Tail(t))

\* the position of the first ">" at or after k, 0 when there is none
FirstClose(t, k) ==
    LET K == {j \in k..Len(t) : t[j] = ">"}
    IN IF K = {} THEN 0 ELSE CHOOSE a \in K : \A b \in K : a <= b

\* re.sub(r"<[^>]+>", "\n", text): each tag becomes a newline
RECURSIVE ReplaceTags(_)
ReplaceTags(t) ==
    IF t = <<>> THEN t
    ELSE IF t[1] = "<" /\ FirstClose(t, 2) > 2
         THEN <<"\n">> \o ReplaceTags(SubSeq(t, FirstClose(t, 2) + 1, Len(t)))
         ELSE <<t[1]>> \o ReplaceTags(Tail(t))

\* re.sub(r"\n{3,}", "\n\n", text): a run of three or more newlines becomes two
RECURSIVE CollapseNewlines(_)
CollapseNewlines(t) ==
    IF Len(t) >= 3 /\ t[1] = "\n" /\ t[2] = "\n" /\ t[3] = "\n"
    THEN CollapseNewlines(Tail(t))
    ELSE IF t = <<>> THEN t
    ELSE <<t[1]>> \o CollapseNewlines(Tail(t))

\* Faulty variant of strip_html: the result is not stripped.
strip_html_noStrip(text) ==
    IF text = <<>> THEN <<>>
    ELSE CollapseNewlines(ReplaceTags(Unescape(text)))

\* strip_html(text) without BeautifulSoup: unescape, tags to newlines, runs
\* of newlines collapsed, stripped
strip_html(text) ==
    IF text = <<>> THEN <<>>
    ELSE Strip(CollapseNewlines(ReplaceTags(Unescape(text))))

\* the width of the context kept on each side of a match
SnippetContext == 30

\* str.replace("\n", " ")
ReplaceNewlines(t) == [k \in DOMAIN t |-> IF t[k] = "\n" THEN " " ELSE t[k]]

\* Faulty variant of Window: the context after the match is forgotten.
Window_leftOnly(t, m) ==
    LET start == IF m.start - SnippetContext > 0 THEN m.start - SnippetContext ELSE 0
    IN SubSeq(t, start + 1, m.end)

\* `text[max(0, m.start() - 30) : min(len(text), m.end() + 30)]`
Window(t, m) ==
    LET start == IF m.start - SnippetContext > 0 THEN m.start - SnippetContext ELSE 0
        end == Min(Len(t), m.end + SnippetContext)
    IN SubSeq(t, start + 1, end)

\* Faulty variant of Snippet: the newlines are kept.
Snippet_keepNewlines(t, m) == Strip(Window(t, m))

\* snippet = text[start:end].replace("\n", " "), appended stripped
Snippet(t, m) == Strip(ReplaceNewlines(Window(t, m)))

\* Faulty variant of Matched: a match at the start of the text reads as none.
Matched_truthyStart(m) == m.start > 0

\* `if m:`: the search found a match
Matched(m) == m.start >= 0

\* matches_part_time(text, compiled_patterns): one snippet per pattern that
\* matches, in pattern order
RECURSIVE matches_part_time(_, _)
matches_part_time(text, patterns) ==
    IF patterns = <<>> THEN <<>>
    ELSE LET m == Search(patterns[1], text)
             rest == matches_part_time(text, Tail(patterns))
         IN IF Matched(m) THEN <<Snippet(text, m)>> \o rest ELSE rest

\* the longest title extract_first_line returns
TitleLimit == 120

\* text.split("\n")
RECURSIVE SplitLines(_)
SplitLines(t) ==
    LET K == {k \in 1..Len(t) : t[k] = "\n"}
    IN IF K = {} THEN <<t>>
       ELSE LET k == CHOOSE a \in K : \A b \in K : a <= b
            IN <<SubSeq(t, 1, k - 1)>> \o SplitLines(SubSeq(t, k + 1, Len(t)))

\* the title returned when every line is blank
NoTitle == <<"(", "n", "o", " ", "t", "i", "t", "l", "e", ")">>

\* Faulty variant of Truncate: one character too many is kept.
Truncate_offByOne(line) == SubSeq(line, 1, Min(Len(line), TitleLimit + 1))

\* `line[:120]`
Truncate(line) == SubSeq(line, 1, Min(Len(line), TitleLimit))

\* extract_first_line(text): the first line that is not blank, stripped and
\* cut to 120 characters
extract_first_line(text) ==
    LET lines == SplitLines(text)
        K == {k \in DOMAIN lines : Strip(lines[k]) # <<>>}
    IN IF K = {} THEN NoTitle
       ELSE Truncate(Strip(lines[CHOOSE a \in K : \A b \in K : a <= b]))

\* a pattern \bX\b over the spellings X can take
Word(lits) == [lits |-> lits, word |-> TRUE, hours |-> FALSE]

\* the pattern \b\d{1,2}[\s-]?hours?\s*/\s*week\b
HoursPerWeek == [lits |-> {}, word |-> TRUE, hours |-> TRUE]

\* re.escape(e): the keyword itself, anywhere in the text
Literal(e) == [lits |-> {e}, word |-> FALSE, hours |-> FALSE]

\* PART_TIME_KEYWORDS, each pattern with `[\s-]?` spelled out
PART_TIME_KEYWORDS ==
    << Word({<<"p", "a", "r", "t", "t", "i", "m", "e">>, <<"p", "a", "r", "t", " ", "t", "i", "m", "e">>, <<"p", "a", "r", "t", "\n", "t", "i", "m", "e">>, <<"p", "a", "r", "t", "	", "t", "i", "m", "e">>, <<"p", "a", "r", "t", "-", "t", "i", "m", "e">>}),
       Word({<<"c", "o", "n", "t", "r", "a", "c", "t">>}),
       Word({<<"f", "r", "e", "e", "l", "a", "n", "c", "e">>}),
       Word({<<"c", "o", "n", "s", "u", "l", "t", "i", "n", "g">>}),
       Word({<<"f", "r", "a", "c", "t", "i", "o", "n", "a", "l">>}),
       Word({<<"f", "l", "e", "x", "i", "b", "l", "e", " ", "h", "o", "u", "r", "s">>}),
       Word({<<"f", "l", "e", "x", "i", "b", "l", "e", " ", "s", "c", "h", "e", "d", "u", "l", "e">>}),
       HoursPerWeek,
       Word({<<"p", "r", "o", "j", "e", "c", "t", "b", "a", "s", "e", "d">>, <<"p", "r", "o", "j", "e", "c", "t", " ", "b", "a", "s", "e", "d">>, <<"p", "r", "o", "j", "e", "c", "t", "\n", "b", "a", "s", "e", "d">>, <<"p", "r", "o", "j", "e", "c", "t", "	", "b", "a", "s", "e", "d">>, <<"p", "r", "o", "j", "e", "c", "t", "-", "b", "a", "s", "e", "d">>}),
       Word({<<"h", "o", "u", "r", "l", "y">>}) >>

\* compile_keywords(extra): the built-in patterns, then each extra keyword
\* escaped
compile_keywords(extra) ==
    PART_TIME_KEYWORDS \o [k \in DOMAIN extra |-> Literal(extra[k])]

\* the values of --keywords explored; <<>> stands for the option not given
KeywordChoices ==
    { <<>>,
      << <<"p", "y", "t", "h", "o", "n">> >>,
      << <<"c", "o", "n", "t", "r", "a", "c", "t">> >>,
      << <<"r", "u", "s", "t">>, <<"h", "o", "u", "r", "l", "y">> >> }

\* the text field of each item that has one
ItemText(i) ==
    CASE i = 100 -> <<"A", "s", "k", " ", "H", "N", ":", " ", "W", "h", "o", " ", "i", "s", " ", "h", "i", "r", "i", "n", "g", "?">>
      [] i = 101 -> <<"A", "c", "m", "e", "<", "p", ">", "C", "O", "N", "T", "R", "A", "C", "T", " ", "r", "o", "l", "e">>
      [] i = 102 -> <<"F", "u", "l", "l", " ", "t", "i", "m", "e", " ", "o", "n", "l", "y">>
      [] i = 103 -> <<"P", "y", "t", "h", "o", "n", ",", " ", "p", "a", "r", "t", "-", "t", "i", "m", "e">>
      [] i = 104 -> <<"p", "y", "t", "h", "o", "n", " ", "&", "a", "m", "p", ";", " ", "g", "o">>
      [] i = 105 -> <<"S", "u", "b", "c", "o", "n", "t", "r", "a", "c", "t", "o", "r", ",", " ", "R", "u", "s", "t">>

\* Faulty variant of ExtraSearch: re.IGNORECASE forgotten, the keyword has to
\* occur with the case it was typed in.
ExtraSearch_caseSensitive(kw, text) ==
    \E k \in DOMAIN kw : Contains(text, kw[k])

\* `re.search("|".join(re.escape(kw) for kw in args.keywords), text,
\* re.IGNORECASE)`
ExtraSearch(kw, text) ==
    \E k \in DOMAIN kw : Search(Literal(kw[k]), text).start >= 0

\* One turn of the filter loop of main: the comment is kept when
\* matches_part_time finds something and, if --keywords was given, one of the
\* keywords occurs in the text.
FilterOne(id, kw) ==
    LET text == strip_html(ItemText(id))
        matched == matches_part_time(text, compile_keywords(kw))
    IN IF matched = <<>> THEN <<>>
       ELSE IF kw # <<>> /\ ~ExtraSearch(kw, text) THEN <<>>
       ELSE << [comment |-> id, matched_keywords |-> matched,
                clean_text |-> text] >>

\* FilterOne for every keyword list and item, computed once
Filtered == [kw \in KeywordChoices |-> [id \in Items |-> FilterOne(id, kw)]]

\* `for comment in comments: ... results.append(...)`
RECURSIVE FilterAll(_, _)
FilterAll(cs, kw) ==
    IF cs = <<>> THEN <<>>
    ELSE Filtered[kw][cs[1]] \o FilterAll(Tail(cs), kw)

(* ------------------------------------------------------------------ *)
(* main: find the thread                                               *)
(* ------------------------------------------------------------------ *)
\* the hits of the model: the thread looked for, and others
ThreadHit ==
    [title |-> <<"A", "s", "k", " ", "H", "N", ":", " ", "W", "h", "o", " ", "I", "s", " ", "H", "i", "r", "i", "n", "g", "?", " ", "(", "M", "a", "y", " ", "2", "0", "2", "6", ")">>,
     objectID |-> Root]

OlderHit ==
    [title |-> <<"A", "s", "k", " ", "H", "N", ":", " ", "W", "h", "o", " ", "i", "s", " ", "h", "i", "r", "i", "n", "g", "?", " ", "(", "A", "p", "r", "i", "l", " ", "2", "0", "2", "6", ")">>,
     objectID |-> 103]

WantsHit ==
    [title |-> <<"A", "s", "k", " ", "H", "N", ":", " ", "W", "h", "o", " ", "w", "a", "n", "t", "s", " ", "t", "o", " ", "b", "e", " ", "h", "i", "r", "e", "d", "?", " ", "(", "M", "a", "y", " ", "2", "0", "2", "6", ")">>,
     objectID |-> 104]

SeekingHit ==
    [title |-> <<"A", "s", "k", " ", "H", "N", ":", " ", "F", "r", "e", "e", "l", "a", "n", "c", "e", "r", "?", " ", "S", "e", "e", "k", "i", "n", "g", " ", "f", "r", "e", "e", "l", "a", "n", "c", "e", "r", "?", " ", "(", "M", "a", "y", " ", "2", "0", "2", "6", ")">>,
     objectID |-> 105]

MixedHit ==
    [title |-> <<"W", "h", "o", " ", "i", "s", " ", "h", "i", "r", "i", "n", "g", " ", "F", "R", "E", "E", "L", "A", "N", "C", "E", "R", "s", "?">>,
     objectID |-> 102]

UntitledHit == [title |-> <<>>, objectID |-> 101]

\* the hit lists the search answers with
HitLists ==
    { <<>>,
      <<ThreadHit>>,
      <<WantsHit, SeekingHit, MixedHit, UntitledHit, ThreadHit, OlderHit>>,
      <<WantsHit, SeekingHit>>,
      <<MixedHit>> }

\* `title = hit.get("title", "").lower()`, then `"who is hiring" in title
\* and "who wants" not in title and "freelancer" not in title`
Qualifies(title) ==
    /\ Contains(LowerText(title), <<"w", "h", "o", " ", "i", "s", " ", "h", "i", "r", "i", "n", "g">>)
    /\ ~Contains(LowerText(title), <<"w", "h", "o", " ", "w", "a", "n", "t", "s">>)
    /\ ~Contains(LowerText(title), <<"f", "r", "e", "e", "l", "a", "n", "c", "e", "r">>)

\* Faulty variant of SelectThread: the last hit that qualifies is taken.
SelectThread_last(hs) ==
    IF \E k \in 1..Len(hs) : Qualifies(hs[k].title)
    THEN CHOOSE k \in 1..Len(hs) :
            /\ Qualifies(hs[k].title)
            /\ \A j \in (k + 1)..Len(hs) : ~Qualifies(hs[j].title)
    ELSE 0

\* `for hit in hits: if ...: return hit`: the index of the first hit that
\* qualifies, 0 when the loop falls through to SystemExit
SelectThread(hs) ==
    IF \E k \in 1..Len(hs) : Qualifies(hs[k].title)
    THEN CHOOSE k \in 1..Len(hs) :
            /\ Qualifies(hs[k].title)
            /\ \A j \in 1..(k - 1) : ~Qualifies(hs[j].title)
    ELSE 0

\* find_latest_thread up to `hits = resp.json().get("hits", [])`: the search
\* request answers with a hit list (ok) or raises
SearchRequest(hs, ok) ==
    /\ pc = "search"
    /\ ~ok => hs = <<>>
    /\ pc' = IF ok THEN "select" ELSE "search_error"
    /\ hits' = hs
    /\ UNCHANGED thread
    /\ UNCHANGED fvars
    /\ UNCHANGED svars
    /\ UNCHANGED mvars
    /\ UNCHANGED <<world, include_replies, max_workers, ITEM_CACHE, comments,
                   todo_ids, futures, cur, kidx, comment_ids, runs, failures,
                   waveNo, sched, prevResult>>

\* thread = find_latest_thread(args.month, session), the loop over the hits:
\* the first hit that qualifies is returned, or SystemExit(message) is raised
FindThread ==
    /\ pc = "select"
    /\ LET k == SelectThread(hits)
       IN /\ pc' = IF k = 0 THEN "notfound" ELSE "start"
          /\ thread' = IF k = 0 THEN NoThread ELSE hits[k]
    /\ hits' = <<>>
    /\ UNCHANGED fvars
    /\ UNCHANGED svars
    /\ UNCHANGED mvars
    /\ UNCHANGED <<world, include_replies, max_workers, ITEM_CACHE, comments,
                   todo_ids, futures, cur, kidx, comment_ids, runs, failures,
                   waveNo, sched, prevResult>>

\* The exit status of the process for each way main ends: 0 after the output,
\* 2 for SystemExit(2), 1 for SystemExit(message) and for an exception that
\* nothing catches.
ExitStatus(p) ==
    CASE p = "done" -> 0
      [] p = "exit2" -> 2
      [] p \in {"notfound", "search_error", "raised"} -> 1

(* ------------------------------------------------------------------ *)
(* main: fetch the story, take its kids                                *)
(* ------------------------------------------------------------------ *)
\* Faulty variant of StoryNext: the story is not tested.
StoryNext_noCheck(kind) == IF kind = "junk" THEN "raised" ELSE "call"

\* `if not story: raise SystemExit(2)`, then `story.get("kids", [])`: a
\* truthy payload that is no dict has no .get and raises AttributeError
StoryNext(kind) ==
    CASE kind = "dict" -> "call"
      [] kind = "junk" -> "raised"
      [] OTHER -> "exit2"

\* story_id = thread.get("objectID") or thread.get("story_id");
\* story = fetch_item(int(story_id)); if not story: raise SystemExit(2);
\* comment_ids = story.get("kids", []). The hit every list of HitLists
\* selects has the objectID Root.
FetchStory(outcome) ==
    /\ pc = "start"
    /\ LET hit == CacheHit(ITEM_CACHE, Root)
           kind == IF hit THEN "dict" ELSE ReturnKind(outcome)
           data == IF hit THEN ITEM_CACHE[Root] ELSE Root
       IN /\ hit => outcome = "dict"
          /\ (~hit /\ outcome # "dict") => failures < MaxFailures
          /\ failures' = IF ~hit /\ outcome # "dict" THEN failures + 1 ELSE failures
          /\ ITEM_CACHE' = IF hit THEN ITEM_CACHE
                           ELSE CacheStore(ITEM_CACHE, Root, kind, data)
          /\ pc' = StoryNext(kind)
          /\ story' = kind
          /\ comment_ids' = IF kind = "dict" THEN world.kids[data] ELSE <<>>
    /\ UNCHANGED fvars
    /\ UNCHANGED svars
    /\ UNCHANGED hvars
    /\ UNCHANGED <<results, keywords, written, cancelled, skipped>>
    /\ UNCHANGED <<world, include_replies, max_workers, comments, todo_ids,
                   futures, cur, kidx, runs, waveNo, sched, prevResult>>

(* ------------------------------------------------------------------ *)
(* fetch_comments                                                      *)
(* ------------------------------------------------------------------ *)
\* comments = []; todo_ids = list(dict.fromkeys(comment_ids)); the pool is created
EnterFetchComments ==
    /\ pc = "call"
    /\ comments' = <<>>
    /\ todo_ids' = Dedup(comment_ids)
    /\ futures' = <<>>
    /\ cur' = 0
    /\ kidx' = 0
    /\ waveNo' = 0
    /\ sched' = [i \in Items |-> 0]
    /\ pc' = "collect"
    /\ skipped' = 0
    /\ UNCHANGED fvars
    /\ UNCHANGED svars
    /\ UNCHANGED hvars
    /\ UNCHANGED <<story, results, keywords, written, cancelled>>
    /\ UNCHANGED <<world, include_replies, max_workers, ITEM_CACHE, comment_ids,
                   runs, failures, prevResult>>

\* futures = {pool.submit(fetch_item, cid, session): cid for cid in todo_ids};
\* todo_ids = []
SubmitWave ==
    /\ pc = "collect"
    /\ WaveComplete
    /\ LoopContinues(todo_ids)
    /\ futures' = [k \in 1..Len(todo_ids) |-> NewFuture(todo_ids[k])]
    /\ todo_ids' = ResetTodo(todo_ids)
    /\ waveNo' = Min(MaxWaveCount, waveNo + 1)
    /\ sched' = [i \in Items |-> Min(2, sched[i] + Count(todo_ids, i))]
    /\ UNCHANGED fvars
    /\ UNCHANGED svars
    /\ UNCHANGED hvars
    /\ UNCHANGED mvars
    /\ UNCHANGED <<world, include_replies, max_workers, ITEM_CACHE, pc, comments,
                   cur, kidx, comment_ids, runs, failures, prevResult>>

\* the while loop ends, the pool is shut down, `return comments`
Return ==
    /\ pc = "collect"
    /\ WaveComplete
    /\ ~LoopContinues(todo_ids)
    /\ pc' = "returned"
    /\ UNCHANGED fvars
    /\ UNCHANGED svars
    /\ UNCHANGED hvars
    /\ UNCHANGED mvars
    /\ UNCHANGED <<world, include_replies, max_workers, ITEM_CACHE, comments,
                   todo_ids, futures, cur, kidx, comment_ids, runs, failures,
                   waveNo, sched, prevResult>>

\* A pool thread takes the oldest queued work item and runs fetch_item up to
\* the cache test: a hit returns the cached payload, a miss sends the GET.
WorkerStart ==
    /\ pc \in {"collect", "raising"}
    /\ Queued # {}
    /\ WorkerFree
    /\ LET f == CHOOSE g \in Queued : \A h \in Queued : g <= h
           cid == futures[f].cid
       IN futures' = [futures EXCEPT ![f] =
              IF CacheHit(ITEM_CACHE, cid)
              THEN [@ EXCEPT !.st = "done", !.out = "hit", !.kind = "dict",
                              !.data = ITEM_CACHE[cid]]
              ELSE [@ EXCEPT !.st = "running"]]
    /\ UNCHANGED fvars
    /\ UNCHANGED svars
    /\ UNCHANGED hvars
    /\ UNCHANGED mvars
    /\ UNCHANGED <<world, include_replies, max_workers, ITEM_CACHE, pc, comments,
                   todo_ids, cur, kidx, comment_ids, runs, failures, waveNo,
                   sched, prevResult>>

\* The GET of a running fetch_item comes back: a dict is stored in the cache
\* and returned, anything else is returned (None for an exception).
WorkerFinish(f, outcome) ==
    /\ pc \in {"collect", "raising"}
    /\ f \in Running
    /\ outcome # "dict" => failures < MaxFailures
    /\ failures' = IF outcome # "dict" THEN failures + 1 ELSE failures
    /\ LET cid == futures[f].cid
           kind == ReturnKind(outcome)
       IN /\ ITEM_CACHE' = CacheStore(ITEM_CACHE, cid, kind, cid)
          /\ futures' = [futures EXCEPT ![f] =
                 [@ EXCEPT !.st = "done", !.out = outcome, !.kind = kind,
                            !.data = cid]]
          /\ skipped' = IF kind = "none" THEN skipped + 1 ELSE skipped
    /\ UNCHANGED fvars
    /\ UNCHANGED svars
    /\ UNCHANGED hvars
    /\ UNCHANGED <<story, results, keywords, written, cancelled>>
    /\ UNCHANGED <<world, include_replies, max_workers, pc, comments, todo_ids,
                   cur, kidx, comment_ids, runs, waveNo, sched, prevResult>>

\* Faulty variant of AppendComment: the list is replaced, earlier items lost.
AppendComment_overwrite(cs, it) == <<it>>

\* `comments.append(result)`
AppendComment(cs, it) == Append(cs, it)

MarkProcessed(fs, f) == [fs EXCEPT ![f] = [@ EXCEPT !.st = "processed"]]

\* One turn of `for future in as_completed(futures)` up to the walk over the
\* kids: a falsy result is skipped, a deleted or dead item is skipped, an item
\* with text is appended to comments. A truthy result that is no dict has no
\* .get: the AttributeError leaves the loop.
TakeResult(f) ==
    /\ pc = "collect"
    /\ cur = 0
    /\ f \in 1..Len(futures)
    /\ futures[f].st = "done"
    /\ LET kind == futures[f].kind
           it == futures[f].data
           keep == kind = "dict" /\ ~Discarded(world, it)
           walk == keep /\ WalksKids(world, it, include_replies)
       IN /\ pc' = IF kind = "junk" THEN "raising" ELSE pc
          /\ comments' = IF keep /\ HasText(world, it)
                         THEN AppendComment(comments, it) ELSE comments
          /\ cur' = IF walk THEN f ELSE 0
          /\ kidx' = IF walk THEN 1 ELSE 0
          /\ futures' = IF walk THEN futures ELSE MarkProcessed(futures, f)
    /\ UNCHANGED fvars
    /\ UNCHANGED svars
    /\ UNCHANGED hvars
    /\ UNCHANGED mvars
    /\ UNCHANGED <<world, include_replies, max_workers, ITEM_CACHE, todo_ids,
                   comment_ids, runs, failures, waveNo, sched, prevResult>>

\* One turn of `for child in result.get("kids", [])`
VisitChild ==
    /\ pc = "collect"
    /\ cur # 0
    /\ LET kids == world.kids[futures[cur].data]
           child == kids[kidx]
           last == kidx = Len(kids)
       IN /\ todo_ids' = IF IsNewChild(ITEM_CACHE, child)
                         THEN Append(todo_ids, child) ELSE todo_ids
          /\ kidx' = IF last THEN 0 ELSE kidx + 1
          /\ cur' = IF last THEN 0 ELSE cur
          /\ futures' = IF last THEN MarkProcessed(futures, cur) ELSE futures
    /\ UNCHANGED fvars
    /\ UNCHANGED svars
    /\ UNCHANGED hvars
    /\ UNCHANGED mvars
    /\ UNCHANGED <<world, include_replies, max_workers, ITEM_CACHE, pc, comments,
                   comment_ids, runs, failures, waveNo, sched, prevResult>>

\* Leaving the `with` block on an exception: the pool's shutdown waits for
\* every submitted fetch, then the exception leaves fetch_comments.
Propagate ==
    /\ pc = "raising"
    /\ Running = {}
    /\ Queued = {}
    /\ pc' = "raised"
    /\ UNCHANGED fvars
    /\ UNCHANGED svars
    /\ UNCHANGED hvars
    /\ UNCHANGED mvars
    /\ UNCHANGED <<world, include_replies, max_workers, ITEM_CACHE, comments,
                   todo_ids, futures, cur, kidx, comment_ids, runs, failures,
                   waveNo, sched, prevResult>>

\* The user interrupts the run while fetch_comments is in its `with` block:
\* KeyboardInterrupt is raised in the coordinating thread. Nothing catches
\* it; the pool's shutdown still runs every submitted fetch (Propagate).
Interrupt ==
    /\ pc = "collect"
    /\ ~cancelled
    /\ cancelled' = TRUE
    /\ pc' = "raising"
    /\ UNCHANGED fvars
    /\ UNCHANGED svars
    /\ UNCHANGED hvars
    /\ UNCHANGED <<story, results, keywords, written, skipped>>
    /\ UNCHANGED <<world, include_replies, max_workers, ITEM_CACHE, comments,
                   todo_ids, futures, cur, kidx, comment_ids, runs, failures,
                   waveNo, sched, prevResult>>

\* `return comments`: what fetch_comments hands back, as a record of its parts
ReturnValue == [items |-> comments]

\* main, step 4: patterns = compile_keywords(args.keywords) and the filter
\* loop over the comments fetch_comments returned
FilterComments(kw) ==
    /\ pc = "returned"
    /\ keywords' = kw
    /\ results' = FilterAll(comments, kw)
    /\ pc' = "filtered"
    /\ UNCHANGED fvars
    /\ UNCHANGED svars
    /\ UNCHANGED hvars
    /\ UNCHANGED <<story, written, cancelled, skipped>>
    /\ UNCHANGED <<world, include_replies, max_workers, ITEM_CACHE, comments,
                   todo_ids, futures, cur, kidx, comment_ids, runs, failures,
                   waveNo, sched, prevResult>>

\* main, step 5: the output is printed, or written to args.output
WriteOutput ==
    /\ pc = "filtered"
    /\ written' = TRUE
    /\ pc' = "done"
    /\ UNCHANGED fvars
    /\ UNCHANGED svars
    /\ UNCHANGED hvars
    /\ UNCHANGED <<story, results, keywords, cancelled, skipped>>
    /\ UNCHANGED <<world, include_replies, max_workers, ITEM_CACHE, comments,
                   todo_ids, futures, cur, kidx, comment_ids, runs, failures,
                   waveNo, sched, prevResult>>

\* The same process runs main again: module state (_ITEM_CACHE) is kept,
\* the locals of the finished call are gone.
NewRun ==
    /\ pc = "done"
    /\ runs < MaxRuns
    /\ runs' = runs + 1
    /\ prevResult' = Append(prevResult, comments)
    /\ pc' = "search"
    /\ comments' = <<>>
    /\ todo_ids' = <<>>
    /\ futures' = <<>>
    /\ cur' = 0
    /\ kidx' = 0
    /\ comment_ids' = <<>>
    /\ waveNo' = 0
    /\ sched' = [i \in Items |-> 0]
    /\ story' = "unset"
    /\ results' = <<>>
    /\ keywords' = <<>>
    /\ written' = FALSE
    /\ skipped' = 0
    /\ hits' = <<>>
    /\ thread' = NoThread
    /\ UNCHANGED fvars
    /\ UNCHANGED svars
    /\ UNCHANGED <<world, include_replies, max_workers, ITEM_CACHE, failures,
                   cancelled>>

Next ==
    \/ \E hs \in HitLists, ok \in BOOLEAN : SearchRequest(hs, ok)
    \/ FindThread
    \/ \E o \in FetchOutcomes : FetchStory(o)
    \/ EnterFetchComments
    \/ SubmitWave
    \/ Return
    \/ WorkerStart
    \/ \E f \in 1..Len(futures), o \in FetchOutcomes : WorkerFinish(f, o)
    \/ \E f \in 1..Len(futures) : TakeResult(f)
    \/ VisitChild
    \/ Propagate
    \/ Interrupt
    \/ \E kw \in KeywordChoices : FilterComments(kw)
    \/ WriteOutput
    \/ NewRun

Spec == Init /\ [][Next]_vars

\* the steps the program takes by itself: all but the interrupt from outside
ProgramStep == Next /\ cancelled' = cancelled

\* Pool threads run to completion and the coordinating thread is never
\* starved: every step of the program that stays enabled is eventually
\* taken. Nothing obliges the user to interrupt.
FairSpec == Spec /\ WF_vars(ProgramStep)

TypeOK ==
    /\ world \in Worlds
    /\ include_replies \in BOOLEAN
    /\ max_workers \in 1..MaxWorkers
    /\ DOMAIN ITEM_CACHE \subseteq Items
    /\ pc \in {"search", "select", "search_error", "notfound", "start", "exit2", "call",
               "collect", "raising", "raised", "returned", "filtered", "done"}
    /\ story \in {"unset", "dict", "none", "junk"}
    /\ written \in BOOLEAN
    /\ cancelled \in BOOLEAN
    /\ skipped \in 0..MaxFailures
    /\ Range(comments) \subseteq Items
    /\ Range(todo_ids) \subseteq Items
    /\ cur \in 0..Len(futures)
    /\ runs \in 1..MaxRuns
    /\ failures \in 0..MaxFailures

(* ------------------------------------------------------------------ *)
(* Shapes of item graphs                                               *)
(* ------------------------------------------------------------------ *)
\* the places (parent, position) where an id is listed as a kid
Listings(w, i) ==
    {pk \in Items \X (1..Cardinality(Items)) :
        pk[2] <= Len(w.kids[pk[1]]) /\ w.kids[pk[1]][pk[2]] = i}

\* every item is listed at most once, the root never: below the root the
\* graph is a tree
IsTree(w) ==
    /\ Listings(w, Root) = {}
    /\ \A i \in Items : Cardinality(Listings(w, i)) <= 1

RECURSIVE Reach(_, _)
Reach(w, S) ==
    LET T == S \cup UNION {Range(w.kids[i]) : i \in S}
    IN IF T = S THEN S ELSE Reach(w, T)

\* every item below the root
Descendants(w) == Reach(w, Range(w.kids[Root]))

InTraversal == pc \in {"collect", "raising"}
Finished == pc \in {"returned", "raised"}

(* ------------------------------------------------------------------ *)
(* C1: over a finite item tree, for every worker count, either value   *)
(* of include_replies and every pattern of fetch outcomes, a call of   *)
(* fetch_comments that has started comes to its end: the loop finds an *)
(* empty todo list and the function returns (or, after a payload that  *)
(* is no dict, the AttributeError leaves it).                          *)
(* ------------------------------------------------------------------ *)
C1_Terminates == (IsTree(world) /\ InTraversal) ~> Finished

\* a run over a tree that took several waves and met a failed fetch has returned
C1_Witness ==
    /\ IsTree(world)
    /\ pc = "returned"
    /\ waveNo >= 2
    /\ failures > 0

(* ------------------------------------------------------------------ *)
(* C2: in one run every item id is submitted for fetch at most once,   *)
(* however often it is discovered as a child.                          *)
(* ------------------------------------------------------------------ *)
C2_ScheduledAtMostOnce == \A i \in Items : sched[i] <= 1

\* the case C3 is about: a first run that returned, nothing failed
C3_Case ==
    /\ pc = "returned"
    /\ runs = 1
    /\ include_replies
    /\ failures = 0
    /\ IsTree(world)
    /\ world.deleted \cup world.dead = {}

(* ------------------------------------------------------------------ *)
(* C3: with include_replies, a cache that was empty when the process   *)
(* started, every fetch succeeding and no deleted or dead item, what   *)
(* fetch_comments returns over an item tree is exactly the descendants *)
(* of the root that have text, each once.                              *)
(* ------------------------------------------------------------------ *)
C3_ExactDescendants ==
    C3_Case =>
        /\ Range(comments) = Descendants(world) \cap world.text
        /\ \A i \in Items : Count(comments, i) <= 1

\* the spec's scenario: 100 -> [101, 102], 102 -> [103], all with text
C3_Witness ==
    /\ C3_Case
    /\ world.kids[Root] = <<101, 102>>
    /\ world.kids[102] = <<103>>
    /\ Range(comments) = {101, 102, 103}

(* ------------------------------------------------------------------ *)
(* C4: every item of the collected list came from a fetch that         *)
(* succeeded, is neither deleted nor dead and has text; a deleted item *)
(* is never in it, children or not.                                    *)
(* ------------------------------------------------------------------ *)
C4_CollectedAreEligible ==
    \A k \in 1..Len(comments) :
        /\ comments[k] \in DOMAIN ITEM_CACHE
        /\ sched[comments[k]] >= 1
        /\ comments[k] \notin world.deleted
        /\ comments[k] \notin world.dead
        /\ comments[k] \in world.text

\* a deleted item that has kids and text was fetched and processed, and the
\* run returned other items
C4_Witness ==
    /\ pc = "returned"
    /\ comments # <<>>
    /\ \E f \in 1..Len(futures) :
          /\ futures[f].st = "processed"
          /\ futures[f].kind = "dict"
          /\ futures[f].data \in world.deleted \cap world.text
          /\ world.kids[futures[f].data] # <<>>

(* ------------------------------------------------------------------ *)
(* C5 (as claimed): with include_replies, once a wave is complete the  *)
(* children of every deleted or dead item fetched in it are in the     *)
(* next wave (unless already cached).                                  *)
(* ------------------------------------------------------------------ *)
C5_ChildrenOfDiscardedScheduled ==
    (pc = "collect" /\ WaveComplete /\ include_replies) =>
        \A f \in 1..Len(futures) :
            (futures[f].kind = "dict" /\ Discarded(world, futures[f].data)) =>
                \A c \in Range(world.kids[futures[f].data]) :
                    c \in Range(todo_ids) \/ c \in DOMAIN ITEM_CACHE

(* ------------------------------------------------------------------ *)
(* C5 (amended): a deleted or dead item is discarded whole, also with  *)
(* include_replies: it schedules none of its children. An id is        *)
(* submitted only if the story or an item that is neither deleted nor  *)
(* dead lists it.                                                      *)
(* ------------------------------------------------------------------ *)
C5_DiscardedScheduleNothing ==
    \A c \in Items :
        sched[c] > 0 =>
            \E p \in Items :
                /\ c \in Range(world.kids[p])
                /\ p \notin world.deleted
                /\ p \notin world.dead

\* with include_replies a deleted item and a dead item that have kids were
\* fetched and processed, the run returned, and their kids were never submitted
C5_Witness ==
    /\ pc = "returned"
    /\ include_replies
    /\ \E f \in 1..Len(futures), g \in 1..Len(futures) :
          /\ futures[f].kind = "dict" /\ futures[f].data \in world.deleted
          /\ futures[g].kind = "dict" /\ futures[g].data \in world.dead
          /\ world.kids[futures[f].data] # <<>>
          /\ world.kids[futures[g].data] # <<>>
          /\ \A c \in Range(world.kids[futures[f].data])
                      \cup Range(world.kids[futures[g].data]) : sched[c] = 0

(* ------------------------------------------------------------------ *)
(* C6: a second run in the same process over the same items, with the  *)
(* same arguments and include_replies, no fetch failing in either run, *)
(* returns the same set of items as the first.                         *)
(* ------------------------------------------------------------------ *)
C6_RunsRepeatable ==
    (pc = "returned" /\ runs = 2 /\ include_replies /\ failures = 0) =>
        Range(comments) = Range(prevResult[1])

\* a step that hands new work to the pool
Submission ==
    \E f \in 1..Len(futures') :
        /\ futures'[f].st = "queued"
        /\ (f > Len(futures) \/ futures[f].st # "queued")

(* ------------------------------------------------------------------ *)
(* C7: wave barrier. A step that submits fetches is taken only when    *)
(* every future of the wave before has completed and been processed,   *)
(* and it submits exactly the todo list, which holds only children of  *)
(* items fetched in that wave.                                         *)
(* ------------------------------------------------------------------ *)
C7_WaveBarrier ==
    [][Submission =>
          /\ cur = 0
          /\ \A f \in 1..Len(futures) : futures[f].st = "processed"
          /\ [k \in 1..Len(futures') |-> futures'[k].cid] = todo_ids
          /\ waveNo >= 1 =>
                Range(todo_ids) \subseteq
                    UNION {Range(world.kids[futures[f].data]) :
                              f \in {g \in 1..Len(futures) : futures[g].kind = "dict"}}
      ]_vars

\* a later wave has been submitted to a pool that runs one fetch at a time
C7_Witness ==
    /\ waveNo >= 2
    /\ max_workers = 1
    /\ Queued # {}

(* ------------------------------------------------------------------ *)
(* C8: at every moment at most max_workers fetches are executing.      *)
(* ------------------------------------------------------------------ *)
C8_BoundedParallelism == Cardinality(Running) <= max_workers

\* a wave larger than the pool: every thread busy, work still queued
C8_Witness ==
    /\ Len(futures) > max_workers
    /\ Cardinality(Running) = max_workers
    /\ Queued # {}

(* ------------------------------------------------------------------ *)
(* C9: without include_replies only the story's direct children are    *)
(* fetched: one wave is submitted (none for a story without kids), the *)
(* todo list stays empty after it, and only direct children are        *)
(* collected.                                                          *)
(* ------------------------------------------------------------------ *)
C9_TopLevelOnly ==
    (~include_replies /\ pc \in {"collect", "raising", "raised", "returned"}) =>
        /\ waveNo <= 1
        /\ waveNo = 1 => todo_ids = <<>>
        /\ (pc = "returned" /\ comment_ids # <<>>) => waveNo = 1
        /\ \A i \in Items : sched[i] > 0 => i \in Range(comment_ids)
        /\ Range(comments) \subseteq Range(comment_ids)

\* a run without include_replies has returned two comments, one of which has
\* a kid that was never submitted
C9_Witness ==
    /\ ~include_replies
    /\ pc = "returned"
    /\ waveNo = 1
    /\ Len(comments) >= 2
    /\ \E k \in 1..Len(comments) :
          /\ world.kids[comments[k]] # <<>>
          /\ \A c \in Range(world.kids[comments[k]]) : sched[c] = 0

\* the GET of future f failed: fetch_item returned None
FailedFetch(f) == futures[f].out \in {"exc", "null"}

(* ------------------------------------------------------------------ *)
(* C10: a failed fetch of one comment (RequestException after the      *)
(* retries, not-found or null payload: fetch_item returns None) does   *)
(* not abort the run. Processing it changes neither the results nor    *)
(* the next wave and raises nothing; a run that is not interrupted     *)
(* raises only after a payload that is no dict; and when it returns,   *)
(* every future of the wave was processed and every fetched eligible   *)
(* item is collected.                                                  *)
(* ------------------------------------------------------------------ *)
C10_FailureSkipped ==
    /\ [](pc \in {"raising", "raised"} /\ futures # <<>> /\ ~cancelled =>
             \E f \in 1..Len(futures) : futures[f].out = "junk")
    /\ [](pc = "returned" =>
             \A f \in 1..Len(futures) :
                 /\ futures[f].st = "processed"
                 /\ (futures[f].kind = "dict" /\ ~Discarded(world, futures[f].data)
                       /\ HasText(world, futures[f].data)) =>
                          futures[f].data \in Range(comments))
    /\ [][\A f \in 1..Len(futures) :
             (FailedFetch(f) /\ futures[f].st = "done"
                /\ f \in DOMAIN futures' /\ futures'[f].st = "processed") =>
                  /\ pc' = pc
                  /\ comments' = comments
                  /\ todo_ids' = todo_ids]_vars

\* a run has returned collected items from a wave in which another fetch failed
C10_Witness ==
    /\ pc = "returned"
    /\ comments # <<>>
    /\ \E f \in 1..Len(futures), g \in 1..Len(futures) :
          /\ FailedFetch(f)
          /\ futures[g].kind = "dict"
          /\ futures[g].data \in Range(comments)

(* ------------------------------------------------------------------ *)
(* C11: when fetch_item returns nothing for the story, main stops with *)
(* exit status 2: not 0, and not the status of the thread-not-found    *)
(* exit; no fetch of a comment has been submitted and nothing written. *)
(* A truthy payload that is no dict stops main as well, by an          *)
(* exception, before any submission and any output.                    *)
(* ------------------------------------------------------------------ *)
C11_RootFetchFailureAborts ==
    /\ story = "none" =>
          /\ pc = "exit2"
          /\ ExitStatus(pc) # 0
          /\ ExitStatus(pc) # ExitStatus("notfound")
          /\ futures = <<>> /\ waveNo = 0
          /\ ~written
    /\ story = "junk" =>
          /\ pc = "raised"
          /\ ExitStatus(pc) # 0
          /\ futures = <<>> /\ waveNo = 0
          /\ ~written

\* the fetch of the story failed and main has left with status 2
C11_Witness ==
    /\ story = "none"
    /\ pc = "exit2"
    /\ failures > 0

\* the futures of the current wave the loop is through with and whose item
\* is eligible: fetched as a dict, neither deleted nor dead
ProcessedEligible ==
    {f \in 1..Len(futures) :
        /\ futures[f].st = "processed"
        /\ futures[f].kind = "dict"
        /\ ~Discarded(world, futures[f].data)}

IsPrefix(a, b) == Len(a) <= Len(b) /\ SubSeq(b, 1, Len(a)) = a

(* ------------------------------------------------------------------ *)
(* C16: whatever the order in which the fetches of a wave complete, no *)
(* update of comments or todo_ids is lost. Every eligible item with    *)
(* text the loop has processed is in comments, once per fetch of it;   *)
(* every child of a processed eligible item (with include_replies) is  *)
(* in todo_ids unless it is in the cache. While the traversal runs,    *)
(* each step only appends to comments, and only appends to todo_ids    *)
(* unless it submits the wave.                                         *)
(* ------------------------------------------------------------------ *)
C16_NoLostUpdate ==
    /\ [](pc = "collect" =>
            \A f \in ProcessedEligible :
                LET it == futures[f].data
                IN /\ HasText(world, it) =>
                        Count(comments, it) >=
                            Cardinality({g \in ProcessedEligible : futures[g].data = it})
                   /\ WalksKids(world, it, include_replies) =>
                        \A child \in Range(world.kids[it]) :
                            child \in Range(todo_ids) \/ CacheHit(ITEM_CACHE, child))
    /\ [][(InTraversal /\ pc' \in {"collect", "raising", "returned", "raised"}) =>
            /\ IsPrefix(comments, comments')
            /\ IsPrefix(todo_ids, todo_ids') \/ (todo_ids' = <<>> /\ futures' # futures)]_vars

\* two fetches ran side by side in a wave that is now complete, with items
\* collected and children found for the next wave
C16_Witness ==
    /\ pc = "collect"
    /\ max_workers = 2
    /\ WaveComplete
    /\ Cardinality(ProcessedEligible) >= 2
    /\ Len(comments) >= 2
    /\ todo_ids # <<>>

\* the other fetches of the id of f that overlap the fetch f in time: still
\* running, or finished with a dict while f was running (f, started after
\* that store, would have hit the cache)
Overlapping(f) ==
    {g \in 1..Len(futures) :
        /\ g # f
        /\ futures[g].cid = futures[f].cid
        /\ \/ futures[g].st = "running"
           \/ futures[g].st \in {"done", "processed"} /\ futures[g].out = "dict"}

(* ------------------------------------------------------------------ *)
(* C17: two workers fetching the same uncached id at the same time are *)
(* safe. When one of them finishes, every other cache entry is as it   *)
(* was, no id but this one can have entered the cache, the entry of    *)
(* the id (a dict has one per key) holds the item of that id, and a    *)
(* fetch that returned a dict leaves the id cached.                    *)
(* ------------------------------------------------------------------ *)
C17_DuplicateFetchSafe ==
    [][\A f \in Running :
          (Overlapping(f) # {} /\ futures'[f].st = "done") =>
              LET cid == futures[f].cid
              IN /\ \A i \in DOMAIN ITEM_CACHE \ {cid} :
                        i \in DOMAIN ITEM_CACHE' /\ ITEM_CACHE'[i] = ITEM_CACHE[i]
                 /\ DOMAIN ITEM_CACHE' \subseteq DOMAIN ITEM_CACHE \cup {cid}
                 /\ CacheHit(ITEM_CACHE, cid) => CacheHit(ITEM_CACHE', cid)
                 /\ CacheHit(ITEM_CACHE', cid) => ITEM_CACHE'[cid] = cid
                 /\ futures'[f].out = "dict" => CacheHit(ITEM_CACHE', cid)]_vars

\* two fetches of one id ran at the same time and both returned the item,
\* with other ids already in the cache
C17_Witness ==
    \E f, g \in 1..Len(futures) :
        /\ f # g
        /\ futures[f].cid = futures[g].cid
        /\ futures[f].out = "dict" /\ futures[g].out = "dict"
        /\ futures[f].st \in {"done", "processed"}
        /\ futures[g].st \in {"done", "processed"}
        /\ Cardinality(DOMAIN ITEM_CACHE) >= 3
        /\ ITEM_CACHE[futures[f].cid] = futures[f].cid

(* ------------------------------------------------------------------ *)
(* C18: a traversal that is cancelled from outside (user interrupt)    *)
(* comes to its end by returning the comments collected so far.        *)
(* ------------------------------------------------------------------ *)
C18_CancelReturnsPartial == (cancelled /\ Finished) => pc = "returned"

(* ------------------------------------------------------------------ *)
(* C19: what a traversal returns holds, beside the collected items, a  *)
(* count of skipped items equal to the number of submitted fetches     *)
(* that failed (fetch_item returned None).                             *)
(* ------------------------------------------------------------------ *)
C19_ReturnsSkipCount ==
    pc = "returned" =>
        /\ "skipped" \in DOMAIN ReturnValue
        /\ ReturnValue.skipped = skipped

\* per keyword list and item: some pattern of compile_keywords(kw) matches
\* the item's normalized text
MatchesCombined ==
    [kw \in KeywordChoices |-> [id \in Items |->
        \E p \in Range(compile_keywords(kw)) :
            Search(p, strip_html(ItemText(id))).start >= 0]]

(* ------------------------------------------------------------------ *)
(* C20: after the filter, a collected comment is in the results        *)
(* exactly when its normalized text matches at least one pattern of    *)
(* the combined set (built-in patterns and extra keywords), with and   *)
(* without extra keywords.                                             *)
(* ------------------------------------------------------------------ *)
C20_IncludedIffAnyPattern ==
    pc \in {"filtered", "done"} =>
        \A k \in DOMAIN comments :
            (\E r \in DOMAIN results : results[r].comment = comments[k])
                <=> MatchesCombined[keywords][comments[k]]

(* ------------------------------------------------------------------ *)
(* fetch_item seen alone: sequential calls through the session that    *)
(* get_session builds (Retry(total=retries, status_forcelist=...))     *)
(* ------------------------------------------------------------------ *)
\* get_session(retries=3, ...)
retries == 3

\* get_session(..., status_forcelist=(429, 500, 502, 503, 504))
status_forcelist == {429, 500, 502, 503, 504}

\* no response at all: connection error or timeout
ConnError == 0

\* the answers explored for one attempt
Statuses == {200, 403, 404, 429, 503, ConnError}

\* the ids fetch_item is called with
FetchIds == {100, 101}

\* the item the API holds under an id can change between two requests: the
\* JSON of a 200 answer carries one of two revisions of it
Payloads(id) == {id, id + 2}

\* Faulty variant of ShouldRetry: every error status is retried.
ShouldRetry_anyError(status) == status = ConnError \/ status >= 400

\* Retry retries a GET whose response status is in status_forcelist, and a
\* GET that met a connection-level error
ShouldRetry(status) == status = ConnError \/ status \in status_forcelist

\* Faulty variant of CanRetry: the first attempt is counted as a retry.
CanRetry_offByOne(n) == n < retries

\* Retry(total=retries): after n attempts another one is made while the n
\* failures have not used up the total
CanRetry(n) == n <= retries

\* How the session.get of fetch_item ends once no retry follows: RetryError
\* or ConnectionError when the retries are used up, HTTPError from
\* raise_for_status for an error status, else the body resp.json() decodes.
GetOutcome(status, body) ==
    IF ShouldRetry(status) \/ status >= 400 THEN "exc" ELSE body

\* one world for the sequential view, where the traversal does not run
FetchInit ==
    /\ world = World(100 :> <<101, 102>> @@ 102 :> <<103>>, {}, {}, {})
    /\ include_replies = FALSE
    /\ max_workers = 1
    /\ ITEM_CACHE = EmptyCache
    /\ pc = "fetch_item"
    /\ comments = <<>>
    /\ todo_ids = <<>>
    /\ futures = <<>>
    /\ cur = 0
    /\ kidx = 0
    /\ comment_ids = <<>>
    /\ runs = 1
    /\ failures = 0
    /\ waveNo = 0
    /\ sched = [i \in Items |-> 0]
    /\ prevResult = <<>>
    /\ MainIdle
    /\ FetchItemIdle
    /\ TextIdle
    /\ node = "idle"
    /\ ResearchIdle

\* fetch_item(item_id) is called: a cached id returns at once, any other
\* sends the GET
CallFetchItem(id) ==
    /\ fi_pc \in {"idle", "returned"}
    /\ calls < MaxCalls
    /\ calls' = calls + 1
    /\ fi_id' = id
    /\ responses' = <<>>
    /\ cacheAtCall' = ITEM_CACHE
    /\ returnedBefore' =
          IF fi_pc = "returned" /\ fi_ret.kind = "dict"
             /\ fi_id \notin DOMAIN returnedBefore
          THEN (fi_id :> fi_ret.data) @@ returnedBefore ELSE returnedBefore
    /\ failedBefore' =
          IF fi_pc = "returned" /\ fi_ret.kind # "dict"
          THEN failedBefore \cup {fi_id} ELSE failedBefore
    /\ IF CacheHit(ITEM_CACHE, id)
       THEN /\ fi_pc' = "returned"
            /\ fi_ret' = [kind |-> "dict", data |-> ITEM_CACHE[id], out |-> "hit"]
       ELSE /\ fi_pc' = "sending"
            /\ fi_ret' = [kind |-> "none", data |-> id, out |-> ""]
    /\ UNCHANGED ITEM_CACHE
    /\ UNCHANGED tvars
    /\ UNCHANGED svars

\* One attempt of the GET is answered. Retry sends it again while the
\* answer is transient and retries are left; else the call ends: a dict is
\* cached and returned, another body is returned, an exception gives None.
HttpAttempt(status, body, data) ==
    /\ fi_pc = "sending"
    /\ data \in Payloads(fi_id)
    /\ status # 200 => body = "dict" /\ data = fi_id
    /\ responses' = Append(responses, status)
    /\ IF ShouldRetry(status) /\ CanRetry(Len(responses) + 1)
       THEN UNCHANGED <<fi_pc, fi_ret, ITEM_CACHE>>
       ELSE LET outcome == GetOutcome(status, body)
                kind == ReturnKind(outcome)
            IN /\ fi_pc' = "returned"
               /\ fi_ret' = [kind |-> kind, data |-> data, out |-> outcome]
               /\ ITEM_CACHE' = CacheStore(ITEM_CACHE, fi_id, kind, data)
    /\ UNCHANGED <<fi_id, calls, returnedBefore, failedBefore, cacheAtCall>>
    /\ UNCHANGED tvars
    /\ UNCHANGED svars

FetchNext ==
    \/ \E id \in FetchIds : CallFetchItem(id)
    \/ \E status \in Statuses, body \in {"dict", "null", "junk"}, data \in Items :
          HttpAttempt(status, body, data)

FetchSpec == FetchInit /\ [][FetchNext]_vars

(* ------------------------------------------------------------------ *)
(* C12: once fetch_item(id) has returned an item, every later call for *)
(* that id returns the same item and sends no request.                 *)
(* ------------------------------------------------------------------ *)
C12_IdempotentCache ==
    (fi_pc \in {"sending", "returned"} /\ fi_id \in DOMAIN returnedBefore) =>
        /\ fi_pc = "returned"
        /\ responses = <<>>
        /\ fi_ret.kind = "dict"
        /\ fi_ret.data = returnedBefore[fi_id]

\* a third call for an id whose item an earlier call returned has come back
C12_Witness ==
    /\ fi_pc = "returned"
    /\ fi_id \in DOMAIN returnedBefore
    /\ fi_ret.out = "hit"
    /\ calls = 3

(* ------------------------------------------------------------------ *)
(* C13: a call of fetch_item that fails (exception, or a payload that  *)
(* is no dict) leaves the cache as it found it; a later call for an id *)
(* that only ever failed sends a new request.                          *)
(* ------------------------------------------------------------------ *)
C13_FailureNotCached ==
    /\ (fi_pc = "returned" /\ fi_ret.kind # "dict") => ITEM_CACHE = cacheAtCall
    /\ (fi_pc \in {"sending", "returned"} /\ fi_id \in failedBefore
          /\ fi_id \notin DOMAIN returnedBefore) =>
             (fi_pc = "sending" \/ responses # <<>>)

\* after a failed call for an id, a later call for it sent a request and
\* returned the item
C13_Witness ==
    /\ fi_pc = "returned"
    /\ fi_id \in failedBefore
    /\ fi_id \notin DOMAIN returnedBefore
    /\ responses # <<>>
    /\ fi_ret.kind = "dict"

AllAnswers(status) ==
    responses # <<>> /\ \A k \in 1..Len(responses) : responses[k] = status

(* ------------------------------------------------------------------ *)
(* C14: a GET answered 503 every time is attempted retries + 1 times   *)
(* (4), then ends in an exception that fetch_item turns into None.     *)
(* ------------------------------------------------------------------ *)
C14_RetryBound ==
    AllAnswers(503) =>
        \/ fi_pc = "sending" /\ Len(responses) <= retries
        \/ /\ fi_pc = "returned"
           /\ Len(responses) = retries + 1
           /\ Len(responses) = 4
           /\ fi_ret.out = "exc"
           /\ fi_ret.kind = "none"

\* the call has returned after four answers 503
C14_Witness ==
    /\ fi_pc = "returned"
    /\ AllAnswers(503)
    /\ Len(responses) = 4

\* the 4xx answers that are not transient
NonTransient4xx == {s \in Statuses : s >= 400 /\ s < 500 /\ s \notin status_forcelist}

(* ------------------------------------------------------------------ *)
(* C15: a 4xx answer outside the transient set is never followed by    *)
(* another attempt: the call ends at once in a failure (None).         *)
(* ------------------------------------------------------------------ *)
C15_NoRetryOn4xx ==
    \A k \in 1..Len(responses) :
        responses[k] \in NonTransient4xx =>
            /\ k = Len(responses)
            /\ fi_pc = "returned"
            /\ fi_ret.out = "exc"
            /\ fi_ret.kind = "none"

\* a call whose only answer was 404 has returned
C15_Witness ==
    /\ fi_pc = "returned"
    /\ responses = <<404>>
    /\ fi_ret.kind = "none"

(* ------------------------------------------------------------------ *)
(* The text functions seen alone: strip_html, matches_part_time and    *)
(* extract_first_line applied to one input                             *)
(* ------------------------------------------------------------------ *)
\* n times the character c
Pad(n, c) == [k \in 1..n |-> c]

\* the texts the inputs are built around
TextCores ==
    { <<"W", "e", " ", "n", "e", "e", "d", " ", "a", " ", "p", "a", "r", "t", "-", "t", "i", "m", "e", " ", "c", "o", "n", "t", "r", "a", "c", "t", "o", "r", " ", "f", "o", "r", " ", "1", "0", " ", "h", "o", "u", "r", "s", "/", "w", "e", "e", "k">>,
      <<"p", "a", "r", "t", "\n", "t", "i", "m", "e">>,
      <<"F", "u", "l", "l", " ", "t", "i", "m", "e", " ", "o", "n", "l", "y">>,
      <<"h", "o", "u", "r", "l", "y", "\n", "c", "o", "n", "t", "r", "a", "c", "t">>,
      <<"\n", "c", "o", "n", "t", "r", "a", "c", "t", " ", "w", "o", "r", "k", " ">>,
      <<>>,
      <<"<", "p", ">", "H", "e", "l", "l", "o", " ", "<", "s", "t", "r", "o", "n", "g", ">", "W", "o", "r", "l", "d", "<", "/", "s", "t", "r", "o", "n", "g", ">", "<", "/", "p", ">">>,
      <<"a", "\n", "\n", "\n", "\n", "b">>,
      <<"x", " ", "&", "l", "t", ";", " ", "y", " ", "&", "g", "t", ";", " ", "z">>,
      <<"&", "a", "m", "p", ";", "l", "t", ";", "b">>,
      <<" ", " ", "p", "l", "a", "i", "n", " ", "t", "e", "x", "t", " ", "\n">>,
      <<"\n", "\n", "C", "o", "m", "p", "a", "n", "y", " ", "X", " ", "-", " ", "P", "a", "r", "t", " ", "t", "i", "m", "e", " ", "r", "o", "l", "e", "\n", "D", "e", "t", "a", "i", "l", "s", ":", " ", "r", "e", "m", "o", "t", "e">>,
      <<" ", "\n", "\t", "\n">> }

\* The lengths of the filler put before and after a core: none, just inside
\* and just outside the context of a snippet, longer than a title.
PadLens == {0, SnippetContext - 1, SnippetContext + 1, TitleLimit + 1}

\* the inputs: a core between two fillers
TextInputs ==
    {Pad(a, ".") \o core \o Pad(b, ".") : a \in PadLens, b \in PadLens, core \in TextCores}

TextInit ==
    /\ world = World(100 :> <<101, 102>> @@ 102 :> <<103>>, {}, {}, {})
    /\ include_replies = FALSE
    /\ max_workers = 1
    /\ ITEM_CACHE = EmptyCache
    /\ pc = "text"
    /\ comments = <<>>
    /\ todo_ids = <<>>
    /\ futures = <<>>
    /\ cur = 0
    /\ kidx = 0
    /\ comment_ids = <<>>
    /\ runs = 1
    /\ failures = 0
    /\ waveNo = 0
    /\ sched = [i \in Items |-> 0]
    /\ prevResult = <<>>
    /\ MainIdle
    /\ FetchItemIdle
    /\ tx_in \in TextInputs
    /\ tx_kw \in KeywordChoices
    /\ tx_op = "none"
    /\ tx_out = <<>>
    /\ node = "idle"
    /\ ResearchIdle

\* text = strip_html(raw)
ApplyStripHtml ==
    /\ tx_op = "none"
    /\ tx_op' = "strip_html"
    /\ tx_out' = strip_html(tx_in)
    /\ UNCHANGED <<tx_in, tx_kw>>
    /\ UNCHANGED tvars
    /\ UNCHANGED fvars
    /\ UNCHANGED gvars
    /\ UNCHANGED ITEM_CACHE

\* matched = matches_part_time(text, compile_keywords(extra))
ApplyMatches ==
    /\ tx_op = "none"
    /\ tx_op' = "matches_part_time"
    /\ tx_out' = matches_part_time(tx_in, compile_keywords(tx_kw))
    /\ UNCHANGED <<tx_in, tx_kw>>
    /\ UNCHANGED tvars
    /\ UNCHANGED fvars
    /\ UNCHANGED gvars
    /\ UNCHANGED ITEM_CACHE

\* title = extract_first_line(text)
ApplyFirstLine ==
    /\ tx_op = "none"
    /\ tx_op' = "extract_first_line"
    /\ tx_out' = extract_first_line(tx_in)
    /\ UNCHANGED <<tx_in, tx_kw>>
    /\ UNCHANGED tvars
    /\ UNCHANGED fvars
    /\ UNCHANGED gvars
    /\ UNCHANGED ITEM_CACHE

\* main hands the normalized text on to the other two functions
Feed ==
    /\ tx_op = "strip_html"
    /\ tx_in' = tx_out
    /\ tx_op' = "none"
    /\ tx_out' = <<>>
    /\ UNCHANGED tx_kw
    /\ UNCHANGED tvars
    /\ UNCHANGED fvars
    /\ UNCHANGED gvars
    /\ UNCHANGED ITEM_CACHE

TextNext ==
    \/ ApplyStripHtml
    \/ ApplyMatches
    \/ ApplyFirstLine
    \/ Feed

TextSpec == TextInit /\ [][TextNext]_vars

\* the patterns of ps, by index, that match t
MatchingIdx(t, ps) == {k \in DOMAIN ps : Search(ps[k], t).start >= 0}

\* the j-th smallest number of S
Nth(S, j) == CHOOSE a \in S : Cardinality({b \in S : b < a}) = j - 1

\* the characters of t the match m covers
MatchedText(t, m) == SubSeq(t, m.start + 1, m.end)

\* the C21 example: "We need a part-time contractor for 10 hours/week"
PartTimeExample ==
    <<"W", "e", " ", "n", "e", "e", "d", " ", "a", " ", "p", "a", "r", "t", "-", "t", "i", "m", "e", " ", "c", "o", "n", "t", "r", "a", "c", "t", "o", "r", " ", "f", "o", "r", " ", "1", "0", " ", "h", "o", "u", "r", "s", "/", "w", "e", "e", "k">>

Max(a, b) == IF a > b THEN a ELSE b

\* the matches behind the entries matches_part_time returned for tx_in, in
\* the order of the entries
EntryMatches ==
    LET ps == compile_keywords(tx_kw)
        I == MatchingIdx(tx_in, ps)
    IN [j \in 1..Cardinality(I) |-> Search(ps[Nth(I, j)], tx_in)]

(* ------------------------------------------------------------------ *)
(* C22 as stated: for a match with span [s, e) in a text of length n   *)
(* the snippet is text[max(0, s-30) : min(n, e+30)] with each newline  *)
(* replaced by a space; the window lies inside the text and is at most *)
(* (e - s) + 60 characters long.                                       *)
(* ------------------------------------------------------------------ *)
C22_SnippetIsWindow ==
    tx_op = "matches_part_time" =>
        \A j \in DOMAIN tx_out :
            LET m == EntryMatches[j]
                lo == Max(0, m.start - 30)
                hi == Min(Len(tx_in), m.end + 30)
            IN /\ 0 <= lo /\ lo <= m.start /\ m.end <= hi /\ hi <= Len(tx_in)
               /\ hi - lo <= (m.end - m.start) + 60
               /\ tx_out[j] = ReplaceNewlines(SubSeq(tx_in, lo + 1, hi))

(* ------------------------------------------------------------------ *)
(* C22, amended: the snippet is that window with each newline replaced *)
(* by a space and then stripped of leading and trailing whitespace;    *)
(* the window lies inside the text and window and snippet are at most  *)
(* (e - s) + 60 characters long.                                       *)
(* ------------------------------------------------------------------ *)
C22_SnippetIsStrippedWindow ==
    tx_op = "matches_part_time" =>
        \A j \in DOMAIN tx_out :
            LET m == EntryMatches[j]
                lo == Max(0, m.start - 30)
                hi == Min(Len(tx_in), m.end + 30)
            IN /\ 0 <= lo /\ lo <= m.start /\ m.end <= hi /\ hi <= Len(tx_in)
               /\ hi - lo <= (m.end - m.start) + 60
               /\ Len(tx_out[j]) <= (m.end - m.start) + 60
               /\ tx_out[j] = Strip(ReplaceNewlines(SubSeq(tx_in, lo + 1, hi)))

\* a match far from both ends of the text, with a newline in its window:
\* the snippet is the full window, 30 characters on each side
C22_Witness ==
    /\ tx_op = "matches_part_time"
    /\ \E j \in DOMAIN tx_out :
          LET m == EntryMatches[j]
          IN /\ m.start > 30
             /\ m.end + 30 < Len(tx_in)
             /\ Len(tx_out[j]) = (m.end - m.start) + 60
             /\ "\n" \in Range(SubSeq(tx_in, m.start - 29, m.end + 30))
             /\ "\n" \notin Range(tx_out[j])

\* a text without markup and without entities: no "<" and no "&"
PlainText(t) == "<" \notin Range(t) /\ "&" \notin Range(t)

\* t holds three or more newlines in a row
HasBlankRun(t) ==
    \E k \in 1..(Len(t) - 2) : t[k] = "\n" /\ t[k + 1] = "\n" /\ t[k + 2] = "\n"

\* t without its newlines
WithoutNewlines(t) == SelectSeq(t, LAMBDA c : c # "\n")

(* ------------------------------------------------------------------ *)
(* C23 as stated: strip_html of a text without markup and entities is  *)
(* that text with only leading and trailing whitespace removed, runs   *)
(* of blank lines included.                                            *)
(* ------------------------------------------------------------------ *)
C23_PlainTextTrimmed ==
    (tx_op = "strip_html" /\ PlainText(tx_in)) => tx_out = Strip(tx_in)

(* ------------------------------------------------------------------ *)
(* C23, amended: strip_html of a text without markup and entities is   *)
(* that text trimmed when it holds no run of three or more newlines;   *)
(* with such runs the result is the trimmed text but for newlines, and *)
(* holds no such run.                                                  *)
(* ------------------------------------------------------------------ *)
C23_PlainTextTrimmedCollapsed ==
    (tx_op = "strip_html" /\ PlainText(tx_in)) =>
        /\ ~HasBlankRun(tx_in) => tx_out = Strip(tx_in)
        /\ ~HasBlankRun(tx_out)
        /\ WithoutNewlines(tx_out) = WithoutNewlines(Strip(tx_in))
        /\ tx_out = Strip(tx_out)

\* a text without markup that had whitespace at its ends has been normalized
C23_Witness ==
    /\ tx_op = "strip_html"
    /\ PlainText(tx_in)
    /\ tx_in # <<>>
    /\ tx_in[1] \in Whitespace
    /\ tx_in[Len(tx_in)] \in Whitespace
    /\ tx_out # <<>>
    /\ tx_out = Strip(tx_in)

\* t without its whitespace
WithoutWhitespace(t) == SelectSeq(t, LAMBDA c : c \notin Whitespace)

\* The text of an HTML fragment: what stands outside its tags, each entity
\* decoded once. "&lt;" in the fragment is text, not the start of a tag.
VisibleText(raw) == Unescape(ReplaceTags(raw))

(* ------------------------------------------------------------------ *)
(* C24: for every input the output of strip_html keeps the text found  *)
(* between the tags, without the tags and with the entities decoded    *)
(* (compared apart from whitespace), holds no run of three or more     *)
(* newlines and no leading or trailing whitespace; the empty input     *)
(* gives the empty string.                                             *)
(* ------------------------------------------------------------------ *)
C24_OutputShape ==
    tx_op = "strip_html" =>
        /\ WithoutWhitespace(tx_out) = WithoutWhitespace(VisibleText(tx_in))
        /\ ~HasBlankRun(tx_out)
        /\ tx_out = Strip(tx_out)
        /\ tx_in = <<>> => tx_out = <<>>

(* ------------------------------------------------------------------ *)
(* C25: the thread search returns the first hit, in the order of the   *)
(* answer, whose lower-cased title contains "who is hiring" and        *)
(* contains neither "who wants" nor "freelancer". When no hit is such  *)
(* a one, the empty answer included, main ends with the fatal          *)
(* thread-not-found exit: no item has been fetched, and no step        *)
(* follows.                                                            *)
(* ------------------------------------------------------------------ *)
\* the indices of the hits a search result names as hiring threads
HiringIdx(hs) ==
    {k \in 1..Len(hs) :
        LET title == LowerText(hs[k].title)
        IN /\ Contains(title, <<"w", "h", "o", " ", "i", "s", " ", "h", "i", "r", "i", "n", "g">>)
           /\ ~Contains(title, <<"w", "h", "o", " ", "w", "a", "n", "t", "s">>)
           /\ ~Contains(title, <<"f", "r", "e", "e", "l", "a", "n", "c", "e", "r">>)}

C25_FirstQualifyingHit ==
    /\ [][(pc = "select" /\ pc' # "select") =>
            IF HiringIdx(hits) = {}
            THEN (pc' = "notfound" /\ thread' = NoThread)
            ELSE /\ pc' = "start"
                 /\ \E k \in HiringIdx(hits) :
                       /\ thread' = hits[k]
                       /\ \A j \in HiringIdx(hits) : k <= j]_vars
    /\ [](pc = "notfound" =>
            /\ ExitStatus(pc) # 0
            /\ story = "unset"
            /\ futures = <<>> /\ waveNo = 0 /\ comments = <<>>)
    /\ [][(pc \in {"search", "select"}) =>
            (ITEM_CACHE' = ITEM_CACHE /\ failures' = failures)]_vars
    /\ [][pc # "notfound"]_vars

\* the search has answered, the loop has returned the hiring thread, and main
\* is about to fetch it
C25_Witness ==
    /\ pc = "start"
    /\ thread = ThreadHit
    /\ thread.objectID = Root

(* ------------------------------------------------------------------ *)
(* C26: extract_first_line returns the first line of the text that is  *)
(* not empty once stripped, stripped and cut to at most 120            *)
(* characters; blank lines before it are skipped; "(no title)" is      *)
(* returned when every line is blank.                                  *)
(* ------------------------------------------------------------------ *)
\* the positions where a line of t starts
LineStarts(t) == {a \in 1..(Len(t) + 1) : a = 1 \/ t[a - 1] = "\n"}

\* the line of t that starts at a: up to the next newline or the end
LineFrom(t, a) ==
    LET E == {b \in a..(Len(t) + 1) : b = Len(t) + 1 \/ t[b] = "\n"}
    IN SubSeq(t, a, (CHOOSE b \in E : \A c \in E : b <= c) - 1)

\* the line holds a character that is no whitespace
NonBlank(line) == \E k \in 1..Len(line) : line[k] \notin Whitespace

C26_FirstNonBlankLine ==
    tx_op = "extract_first_line" =>
        LET A == {a \in LineStarts(tx_in) : NonBlank(LineFrom(tx_in, a))}
        IN /\ A = {} <=> tx_out = NoTitle
           /\ A # {} =>
                LET a == CHOOSE x \in A : \A y \in A : x <= y
                    line == Strip(LineFrom(tx_in, a))
                IN /\ \A b \in LineStarts(tx_in) :
                        b < a => ~NonBlank(LineFrom(tx_in, b))
                   /\ Len(tx_out) <= 120
                   /\ Len(tx_out) = IF Len(line) < 120 THEN Len(line) ELSE 120
                   /\ tx_out = SubSeq(line, 1, Len(tx_out))
                   /\ tx_out # <<>>

\* a text with blank lines before a line longer than 120 characters: the
\* blank lines were skipped and the line was cut
C26_Witness ==
    /\ tx_op = "extract_first_line"
    /\ Len(tx_in) > 0 /\ tx_in[1] = "\n"
    /\ \E a \in LineStarts(tx_in) :
          /\ a > 1
          /\ Len(Strip(LineFrom(tx_in, a))) > 120
          /\ \A b \in LineStarts(tx_in) : b < a => ~NonBlank(LineFrom(tx_in, b))
    /\ Len(tx_out) = 120

(* ------------------------------------------------------------------ *)
(* The research agent: config and the structured output models         *)
(* ------------------------------------------------------------------ *)
\* config.MAX_SEARCH_QUERIES and config.MAX_KEY_FINDINGS, their defaults
MAX_SEARCH_QUERIES == 3

MAX_KEY_FINDINGS == 5

\* Field(..., min_length=1, max_length=3) of SearchQueries.queries and
\* Field(..., min_length=1, max_length=5) of KeyFindings.findings
MinLength == 1

QueriesMaxLength == 3

FindingsMaxLength == 5

\* seq[:n]
Take(seq, n) == SubSeq(seq, 1, Min(Len(seq), n))

\* `[q.strip() for q in v if q.strip()]`, the validator of both models
RECURSIVE Clean(_)
Clean(v) ==
    IF v = <<>> THEN <<>>
    ELSE (IF Strip(Head(v)) = <<>> THEN <<>> ELSE <<Strip(Head(v))>>)
         \o Clean(Tail(v))

\* SearchQueries(queries=raw): the length constraints of the field are
\* validated first, clean_queries runs on a list that passed them
SearchQueries(raw) ==
    IF Len(raw) >= MinLength /\ Len(raw) <= QueriesMaxLength
    THEN [ok |-> TRUE, queries |-> Clean(raw)]
    ELSE [ok |-> FALSE, queries |-> <<>>]

\* KeyFindings(findings=raw), validated the same way
KeyFindings(raw) ==
    IF Len(raw) >= MinLength /\ Len(raw) <= FindingsMaxLength
    THEN [ok |-> TRUE, findings |-> Clean(raw)]
    ELSE [ok |-> FALSE, findings |-> <<>>]

(* ------------------------------------------------------------------ *)
(* The research agent: what the language model and the search answer   *)
(* ------------------------------------------------------------------ *)
\* search results returned for one query, at most
MaxHits == 2

\* the questions the graph is invoked with
Questions == {<<"w", "h", "y">>, <<"h", "o", "w">>}

Blank == <<" ">>

\* the lists the model writes as queries, before validation
RawQueryLists ==
    { <<>>,
      <<Blank>>,
      <<<<"a">>>>,
      <<<<" ", "a", " ">>, Blank, <<"b">>>>,
      <<<<"a">>, <<"b">>, <<"c">>>>,
      <<<<"a">>, <<"b">>, <<"c">>, <<"d">>>> }

\* query_chain.invoke(...): the call raises (the model fails, or its output
\* is no JSON), or the parser validates the list the model wrote
QueryReplies ==
    {[raised |-> TRUE, raw |-> <<>>]}
        \cup {[raised |-> FALSE, raw |-> l] : l \in RawQueryLists}

\* the j-th result of a search for query q: the first has a title and a url,
\* the second no title, a further one neither of the two
Result(q, j) ==
    CASE j = 1 -> [query |-> q, rank |-> j, title |-> <<"T">> \o q,
                   url |-> <<"u">> \o q]
      [] j = 2 -> [query |-> q, rank |-> j, url |-> <<"v">> \o q]
      [] OTHER -> [query |-> q, rank |-> j]

\* the n results of a search for query q
Hits(q, n) == [j \in 1..n |-> Result(q, j)]

\* tavily_client.search(query, ...): raises, answers a dict without
\* "results", or answers with results
SearchReplies(q) ==
    { [raised |-> TRUE, has_results |-> FALSE, results |-> <<>>],
      [raised |-> FALSE, has_results |-> FALSE, results |-> <<>>] }
        \cup {[raised |-> FALSE, has_results |-> TRUE, results |-> Hits(q, n)] :
                n \in 1..MaxHits}

\* the character U+2022, one element of a text
Bullet == "U+2022"

\* what the model writes as analysis
AnalysisTexts ==
    { <<"n", "o", " ", "b", "u", "l", "l", "e", "t", "s">>,
      <<"S", "u", "m", "\n", "-", " ", "a", "\n", " ">> \o <<Bullet>> \o <<" ", "b", "\n", "e", "n", "d">>,
      <<"-", "a", "\n", "-", "b", "\n", "-", "c", "\n", "-", "d", "\n", "-", "e", "\n", "-", "f">>,
      <<"x", "\n", " ", "-", " ", "\n", "y">> }

\* analysis_chain.invoke(...): raises or answers with a text
AnalysisReplies ==
    {[raised |-> TRUE, content |-> <<>>]}
        \cup {[raised |-> FALSE, content |-> c] : c \in AnalysisTexts}

\* the lists the model writes as findings, before validation
RawFindingLists ==
    { <<>>,
      <<Blank>>,
      <<<<" ", "f", " ">>, <<"g">>>>,
      <<<<"f">>, <<"g">>, <<"h">>, <<"i">>, <<"j">>, <<"k">>>> }

\* findings_chain.invoke(...): raises or hands the list to the parser
FindingsReplies ==
    {[raised |-> TRUE, raw |-> <<>>]}
        \cup {[raised |-> FALSE, raw |-> l] : l \in RawFindingLists}

\* writer_chain.invoke(...): raises or answers with a text
WriterReplies ==
    { [raised |-> TRUE, content |-> <<>>],
      [raised |-> FALSE, content |-> <<"a", "n", "s", "w", "e", "r">>] }

(* ------------------------------------------------------------------ *)
(* The researcher                                                      *)
(* ------------------------------------------------------------------ *)
\* _search_single_query(query): the results of the answer, [] when the
\* answer has none or the search raised; it never raises itself
search_single_query(reply) ==
    IF ~reply.raised /\ reply.has_results THEN reply.results ELSE <<>>

\* Faulty variant of FallbackQueries: the question is searched twice.
FallbackQueries_twice(question) == <<question, question>>

\* `queries = [question]`
FallbackQueries(question) == <<question>>

\* the try block of research: `response.queries[:config.MAX_SEARCH_QUERIES]`
\* or the fallback when query_chain.invoke raised
GenerateQueries(question, reply) ==
    IF ~reply.raised /\ SearchQueries(reply.raw).ok
    THEN Take(SearchQueries(reply.raw).queries, MAX_SEARCH_QUERIES)
    ELSE FallbackQueries(question)

\* research, up to the submission of the searches: the queries are made and
\* every one is submitted to the pool, which has a thread for each
Submit(reply) ==
    /\ node = "researcher"
    /\ r_pc = "generate"
    /\ q_reply' = reply
    /\ queries' = GenerateQueries(gstate.question, reply)
    /\ rfutures' = [i \in 1..Len(queries') |->
                      [query |-> queries'[i], st |-> "running",
                       reply |-> [raised |-> FALSE, has_results |-> FALSE,
                                  results |-> <<>>],
                       value |-> <<>>, got |-> "no"]]
    /\ rcur' = 1
    /\ all_results' = <<>>
    /\ r_pc' = "collect"
    /\ UNCHANGED <<node, gstate, trace, searches, a_reply, f_reply>>
    /\ UNCHANGED xvars
    /\ UNCHANGED tvars
    /\ UNCHANGED fvars
    /\ UNCHANGED ITEM_CACHE

\* a pool thread runs _search_single_query for the query of future i
SearchDone(i, reply) ==
    /\ node = "researcher"
    /\ r_pc = "collect"
    /\ i \in 1..Len(rfutures)
    /\ rfutures[i].st = "running"
    /\ searches' = searches + 1
    /\ rfutures' = [rfutures EXCEPT
                      ![i].st = "done",
                      ![i].reply = reply,
                      ![i].value = search_single_query(reply)]
    /\ UNCHANGED <<node, gstate, trace, r_pc, queries, rcur, all_results,
                   q_reply, a_reply, f_reply>>
    /\ UNCHANGED xvars
    /\ UNCHANGED tvars
    /\ UNCHANGED fvars
    /\ UNCHANGED ITEM_CACHE

\* Faulty variant of Collect: the loop ends at the first search that raised.
Collect_abandon ==
    /\ node = "researcher"
    /\ r_pc = "collect"
    /\ rcur \in 1..Len(rfutures)
    /\ rfutures[rcur].st = "done"
    /\ all_results' = all_results \o rfutures[rcur].value
    /\ rfutures' = [rfutures EXCEPT ![rcur].got = "yes"]
    /\ rcur' = IF rfutures[rcur].reply.raised THEN Len(rfutures) + 1
               ELSE rcur + 1
    /\ UNCHANGED <<node, gstate, trace, r_pc, queries, searches, q_reply,
                   a_reply, f_reply>>
    /\ UNCHANGED xvars
    /\ UNCHANGED tvars
    /\ UNCHANGED fvars
    /\ UNCHANGED ITEM_CACHE

\* `results = future.result(timeout=30); all_results.extend(results)` on a
\* future that is done
Collect ==
    /\ node = "researcher"
    /\ r_pc = "collect"
    /\ rcur \in 1..Len(rfutures)
    /\ rfutures[rcur].st = "done"
    /\ all_results' = all_results \o rfutures[rcur].value
    /\ rfutures' = [rfutures EXCEPT ![rcur].got = "yes"]
    /\ rcur' = rcur + 1
    /\ UNCHANGED <<node, gstate, trace, r_pc, queries, searches, q_reply,
                   a_reply, f_reply>>
    /\ UNCHANGED xvars
    /\ UNCHANGED tvars
    /\ UNCHANGED fvars
    /\ UNCHANGED ITEM_CACHE

\* future.result(timeout=30) on a search that takes longer: TimeoutError is
\* logged and the loop goes on; the search itself still runs to its end
Timeout ==
    /\ node = "researcher"
    /\ r_pc = "collect"
    /\ rcur \in 1..Len(rfutures)
    /\ rfutures[rcur].st = "running"
    /\ rfutures' = [rfutures EXCEPT ![rcur].got = "timeout"]
    /\ rcur' = rcur + 1
    /\ UNCHANGED <<node, gstate, trace, r_pc, queries, all_results, searches,
                   q_reply, a_reply, f_reply>>
    /\ UNCHANGED xvars
    /\ UNCHANGED tvars
    /\ UNCHANGED fvars
    /\ UNCHANGED ITEM_CACHE

(* ------------------------------------------------------------------ *)
(* The graph                                                           *)
(* ------------------------------------------------------------------ *)
\* workflow.set_entry_point("researcher")
EntryPoint == "researcher"

\* Faulty variant of Edges: the researcher is wired to the writer.
Edges_skipAnalyst ==
    { <<"researcher", "writer">>, <<"writer", "END">>, <<"analyst", "writer">> }

\* the add_edge calls
Edges ==
    { <<"researcher", "analyst">>, <<"analyst", "writer">>, <<"writer", "END">> }

\* the node that runs after node n
NextNode(n) == CHOOSE m \in {"researcher", "analyst", "writer", "END"} : <<n, m>> \in Edges

\* the graph applies what a node returned: the keys of the update replace
\* or extend those of the state
Merge(st, upd) ==
    [k \in DOMAIN st \cup DOMAIN upd |-> IF k \in DOMAIN upd THEN upd[k] ELSE st[k]]

\* the graph moves on from node n, whose update is upd
Advance(n, upd) ==
    /\ gstate' = Merge(gstate, upd)
    /\ node' = NextNode(n)
    /\ trace' = IF NextNode(n) = "END" THEN trace ELSE Append(trace, NextNode(n))

\* graph.invoke({"question": question}) starts the entry node
Invoke(question) ==
    /\ node = "START"
    /\ gstate' = [question |-> question]
    /\ node' = EntryPoint
    /\ trace' = <<EntryPoint>>
    /\ UNCHANGED <<r_pc, queries, rfutures, rcur, all_results, searches,
                   q_reply, a_reply, f_reply>>
    /\ UNCHANGED xvars
    /\ UNCHANGED tvars
    /\ UNCHANGED fvars
    /\ UNCHANGED ITEM_CACHE

\* research leaves the `with` block, which waits for every search, and
\* returns search_queries and search_results; the graph moves on
ReturnResearch ==
    /\ node = "researcher"
    /\ r_pc = "collect"
    /\ rcur > Len(rfutures)
    /\ \A i \in 1..Len(rfutures) : rfutures[i].st = "done"
    /\ r_pc' = "returned"
    /\ Advance("researcher",
               [search_queries |-> queries, search_results |-> all_results])
    /\ UNCHANGED <<queries, rfutures, rcur, all_results, searches, q_reply,
                   a_reply, f_reply>>
    /\ UNCHANGED xvars
    /\ UNCHANGED tvars
    /\ UNCHANGED fvars
    /\ UNCHANGED ITEM_CACHE

(* ------------------------------------------------------------------ *)
(* The analyst                                                         *)
(* ------------------------------------------------------------------ *)
NoResultsText == <<"N", "o", " ", "s", "e", "a", "r", "c", "h", " ", "r", "e", "s", "u", "l", "t", "s", " ", "a", "v", "a", "i", "l", "a", "b", "l", "e", " ", "f", "o", "r", " ", "a", "n", "a", "l", "y", "s", "i", "s", ".">>

NoDataText == <<"N", "o", " ", "d", "a", "t", "a", " ", "a", "v", "a", "i", "l", "a", "b", "l", "e">>

AnalysisError == <<"E", "r", "r", "o", "r", " ", "d", "u", "r", "i", "n", "g", " ", "a", "n", "a", "l", "y", "s", "i", "s", ":", " ">>

AnalysisFailed == <<"A", "n", "a", "l", "y", "s", "i", "s", " ", "f", "a", "i", "l", "e", "d">>

SeeFullAnalysis == <<"S", "e", "e", " ", "f", "u", "l", "l", " ", "a", "n", "a", "l", "y", "s", "i", "s">>

\* t.strip(chars): characters of C removed at both ends
StripChars(t, C) ==
    LET K == {k \in 1..Len(t) : t[k] \notin C}
    IN IF K = {} THEN <<>>
       ELSE SubSeq(t, CHOOSE a \in K : \A b \in K : a <= b,
                      CHOOSE a \in K : \A b \in K : a >= b)

\* `line.strip().startswith("-") or line.strip().startswith("•")`
IsBulletLine(line) ==
    /\ Strip(line) # <<>>
    /\ Strip(line)[1] \in {"-", Bullet}

\* Faulty variant of FallbackFindings: the list is left empty.
FallbackFindings_empty(analysis) ==
    LET bullets == SelectSeq(SplitLines(analysis), IsBulletLine)
    IN Take([k \in DOMAIN bullets |-> Strip(StripChars(bullets[k], {"-", " "}))],
            MAX_KEY_FINDINGS)

\* the fallback of analyze: `line.strip("- ").strip()` of the bullet lines,
\* cut to MAX_KEY_FINDINGS, or ["See full analysis"]
FallbackFindings(analysis) ==
    LET bullets == SelectSeq(SplitLines(analysis), IsBulletLine)
        found == Take([k \in DOMAIN bullets |->
                          Strip(StripChars(bullets[k], {"-", " "}))],
                      MAX_KEY_FINDINGS)
    IN IF found = <<>> THEN <<SeeFullAnalysis>> ELSE found

\* analyze(state): what it returns, given the answers of its two chains
analyze(search_results, areply, freply) ==
    IF search_results = <<>>
    THEN [analysis |-> NoResultsText, key_findings |-> <<NoDataText>>]
    ELSE IF areply.raised
    THEN [analysis |-> AnalysisError, key_findings |-> <<AnalysisFailed>>]
    ELSE IF ~freply.raised /\ KeyFindings(freply.raw).ok
    THEN [analysis |-> areply.content,
          key_findings |-> Take(KeyFindings(freply.raw).findings,
                                MAX_KEY_FINDINGS)]
    ELSE [analysis |-> areply.content,
          key_findings |-> FallbackFindings(areply.content)]

\* the analyst node: analyze(state) with the answers of its chains; without
\* search results, and after a failed analysis, a chain is not invoked
Analyze(areply, freply) ==
    /\ node = "analyst"
    /\ areply = NoReply <=> gstate.search_results = <<>>
    /\ freply = NoReply <=> (gstate.search_results = <<>> \/ areply.raised)
    /\ a_reply' = areply
    /\ f_reply' = freply
    /\ Advance("analyst", analyze(gstate.search_results, areply, freply))
    /\ UNCHANGED <<r_pc, queries, rfutures, rcur, all_results, searches, q_reply>>
    /\ UNCHANGED xvars
    /\ UNCHANGED tvars
    /\ UNCHANGED fvars
    /\ UNCHANGED ITEM_CACHE

(* ------------------------------------------------------------------ *)
(* The writer                                                          *)
(* ------------------------------------------------------------------ *)
AnswerError == <<"E", "r", "r", "o", "r", " ", "g", "e", "n", "e", "r", "a", "t", "i", "n", "g", " ", "a", "n", "s", "w", "e", "r", ":", " ">>

\* the default of result.get(key, 'N/A')
NA == <<"N", "/", "A">>

\* d.get(key, default)
Get(d, key, default) == IF key \in DOMAIN d THEN d[key] ELSE default

DigitChars == <<"0", "1", "2", "3", "4", "5", "6", "7", "8", "9">>

\* str(n) of a natural number, as the f-string renders {idx}
RECURSIVE IntToText(_)
IntToText(n) ==
    IF n < 10 THEN <<DigitChars[n + 1]>>
    ELSE IntToText(n \div 10) \o <<DigitChars[(n % 10) + 1]>>

\* Faulty variant of SourceEntry: the numbers start from 0.
SourceEntry_zeroBased(idx, result) ==
    <<"[">> \o IntToText(idx - 1) \o <<"]", " ">>
        \o Get(result, "title", NA) \o <<" ", "-", " ">>
        \o Get(result, "url", NA)

\* f"[{idx}] {result.get('title', 'N/A')} - {result.get('url', 'N/A')}"
SourceEntry(idx, result) ==
    <<"[">> \o IntToText(idx) \o <<"]", " ">>
        \o Get(result, "title", NA) \o <<" ", "-", " ">>
        \o Get(result, "url", NA)

\* write(state): one source per search result, numbered by
\* enumerate(search_results, 1), and the answer of the chain or the error
\* text; sources is built before the chain is invoked
write(search_results, wreply) ==
    [answer |-> IF wreply.raised THEN AnswerError ELSE wreply.content,
     sources |-> [i \in 1..Len(search_results) |->
                     SourceEntry(i, search_results[i])]]

\* the writer node
Write(wreply) ==
    /\ node = "writer"
    /\ Advance("writer", write(gstate.search_results, wreply))
    /\ UNCHANGED <<r_pc, queries, rfutures, rcur, all_results, searches,
                   q_reply, a_reply, f_reply>>
    /\ UNCHANGED xvars
    /\ UNCHANGED tvars
    /\ UNCHANGED fvars
    /\ UNCHANGED ITEM_CACHE

(* ------------------------------------------------------------------ *)
(* The research graph seen alone                                       *)
(* ------------------------------------------------------------------ *)
ResearchInit ==
    /\ world = World(100 :> <<101, 102>> @@ 102 :> <<103>>, {}, {}, {})
    /\ include_replies = FALSE
    /\ max_workers = 1
    /\ ITEM_CACHE = EmptyCache
    /\ pc = "research"
    /\ comments = <<>>
    /\ todo_ids = <<>>
    /\ futures = <<>>
    /\ cur = 0
    /\ kidx = 0
    /\ comment_ids = <<>>
    /\ runs = 1
    /\ failures = 0
    /\ waveNo = 0
    /\ sched = [i \in Items |-> 0]
    /\ prevResult = <<>>
    /\ MainIdle
    /\ FetchItemIdle
    /\ TextIdle
    /\ node = "START"
    /\ ResearchIdle

ResearchNext ==
    \/ \E question \in Questions : Invoke(question)
    \/ \E reply \in QueryReplies : Submit(reply)
    \/ \E i \in 1..MAX_SEARCH_QUERIES :
          \E reply \in SearchReplies(IF i \in DOMAIN queries THEN queries[i] ELSE <<>>) :
             SearchDone(i, reply)
    \/ Collect
    \/ Timeout
    \/ ReturnResearch
    \/ \E areply \in AnalysisReplies \cup {NoReply},
          freply \in FindingsReplies \cup {NoReply} : Analyze(areply, freply)
    \/ \E wreply \in WriterReplies : Write(wreply)

ResearchSpec == ResearchInit /\ [][ResearchNext]_vars

(* ------------------------------------------------------------------ *)
(* C27: a run of the research graph starts the researcher, then the    *)
(* analyst, then the writer, then ends; every node runs exactly once;  *)
(* the analyst does not run before the researcher has returned, the    *)
(* writer does not run before the analyst has returned; the final      *)
(* state holds question, search_queries, search_results, analysis,     *)
(* key_findings, answer and sources.                                   *)
(* ------------------------------------------------------------------ *)
C27_FixedOrder ==
    /\ node # "idle" =>
          /\ Len(trace) <= 3
          /\ trace = SubSeq(<<"researcher", "analyst", "writer">>, 1, Len(trace))
          /\ node \in {"START", "END"} \/ node = trace[Len(trace)]
    /\ (\E k \in 1..Len(trace) : trace[k] = "analyst") =>
          /\ r_pc = "returned"
          /\ {"search_queries", "search_results"} \subseteq DOMAIN gstate
    /\ (\E k \in 1..Len(trace) : trace[k] = "writer") =>
          {"analysis", "key_findings"} \subseteq DOMAIN gstate
    /\ node = "END" =>
          /\ trace = <<"researcher", "analyst", "writer">>
          /\ DOMAIN gstate = {"question", "search_queries", "search_results",
                              "analysis", "key_findings", "answer", "sources"}
          /\ gstate.question \in Questions

\* a run that found results has ended after its three nodes
C27_Witness ==
    /\ node = "END"
    /\ Len(trace) = 3
    /\ gstate.search_results # <<>>
    /\ gstate.key_findings # <<>>

(* ------------------------------------------------------------------ *)
(* C28: research does not raise when searches fail. A query whose      *)
(* search raised contributes no result; the results of the searches    *)
(* that answered within the 30 seconds their future is waited for are *)
(* all in search_results, in the order of the queries, and every       *)
(* future is waited for; when every search raised, search_results is   *)
(* the empty list.                                                     *)
(* ------------------------------------------------------------------ *)
\* what the searches of futures fs give, in order: the results of each
\* search that answered with results and whose future was waited for
RECURSIVE Answered(_)
Answered(fs) ==
    IF fs = <<>> THEN <<>>
    ELSE (IF ~Head(fs).reply.raised /\ Head(fs).reply.has_results
             /\ Head(fs).got = "yes"
          THEN Head(fs).reply.results ELSE <<>>)
         \o Answered(Tail(fs))

C28_SearchFailuresContained ==
    r_pc = "returned" =>
        /\ {"search_queries", "search_results"} \subseteq DOMAIN gstate
        /\ \A i \in 1..Len(rfutures) : rfutures[i].got \in {"yes", "timeout"}
        /\ gstate.search_results = Answered(rfutures)
        /\ \A i \in 1..Len(rfutures) :
              rfutures[i].reply.raised =>
                 \A k \in 1..Len(gstate.search_results) :
                    gstate.search_results[k].query # rfutures[i].query
        /\ (\A i \in 1..Len(rfutures) : rfutures[i].reply.raised) =>
              gstate.search_results = <<>>

\* research has returned: the first search raised, a later one answered and
\* its results are in search_results
C28_Witness ==
    /\ r_pc = "returned"
    /\ Len(rfutures) >= 2
    /\ rfutures[1].reply.raised
    /\ \E i \in 2..Len(rfutures) :
          /\ rfutures[i].reply.has_results
          /\ rfutures[i].got = "yes"
    /\ gstate.search_results # <<>>

(* ------------------------------------------------------------------ *)
(* C29: the researcher makes at most MAX_SEARCH_QUERIES searches for a *)
(* question: search_queries has at most MAX_SEARCH_QUERIES entries     *)
(* whatever number of queries the model writes, one search is made per *)
(* entry, and when query generation fails search_queries is the        *)
(* question alone.                                                     *)
(* ------------------------------------------------------------------ *)
\* query generation failed: the chain raised, or the list the model wrote
\* is refused by SearchQueries (empty, or longer than its max_length)
GenerationFailed ==
    \/ q_reply.raised
    \/ Len(q_reply.raw) = 0
    \/ Len(q_reply.raw) > 3

C29_SearchesBounded ==
    /\ searches <= 3
    /\ r_pc # "generate" =>
          /\ Len(queries) <= 3
          /\ searches <= Len(queries)
          /\ GenerationFailed => queries = <<gstate.question>>
    /\ r_pc = "returned" =>
          /\ gstate.search_queries = queries
          /\ Len(gstate.search_queries) <= 3
          /\ searches = Len(gstate.search_queries)
          /\ GenerationFailed => gstate.search_queries = <<gstate.question>>

\* the model wrote more queries than SearchQueries admits: generation failed,
\* the question alone was searched, once
C29_Witness ==
    /\ r_pc = "returned"
    /\ ~q_reply.raised
    /\ Len(q_reply.raw) > 3
    /\ gstate.search_queries = <<gstate.question>>
    /\ searches = 1

(* ------------------------------------------------------------------ *)
(* C30: the analyst step does not raise and returns analysis and       *)
(* key_findings, key_findings with at least one and at most            *)
(* MAX_KEY_FINDINGS entries; when the structured extraction fails the  *)
(* entries are the bullet lines of the analysis, and                   *)
(* "See full analysis" alone when it has none.                         *)
(* ------------------------------------------------------------------ *)
\* the analyst has returned
Analyzed == \E k \in 1..Len(trace) : trace[k] = "writer"

\* the analysis was made and the structured extraction failed: the chain
\* raised, or the list the model wrote is refused by KeyFindings
ExtractionFailed ==
    /\ a_reply # NoReply
    /\ ~a_reply.raised
    /\ \/ f_reply.raised
       \/ Len(f_reply.raw) = 0
       \/ Len(f_reply.raw) > 5

C30_KeyFindingsNonEmpty ==
    Analyzed =>
        /\ {"analysis", "key_findings"} \subseteq DOMAIN gstate
        /\ Len(gstate.key_findings) >= 1
        /\ Len(gstate.key_findings) <= 5
        /\ ExtractionFailed =>
              LET bullets == SelectSeq(SplitLines(gstate.analysis), IsBulletLine)
              IN IF bullets = <<>>
                 THEN gstate.key_findings = <<SeeFullAnalysis>>
                 ELSE /\ Len(gstate.key_findings) = Min(Len(bullets), 5)
                      /\ \A k \in 1..Len(gstate.key_findings) :
                            Contains(bullets[k], gstate.key_findings[k])

(* ------------------------------------------------------------------ *)
(* C31: the writer returns one source entry per search result, in the  *)
(* order of the results, the i-th entry numbered [i] from 1 on; no     *)
(* result gives the empty list; the list is the same when the answer   *)
(* could not be generated.                                             *)
(* ------------------------------------------------------------------ *)
\* the writer has returned
Written == node = "END"

C31_SourcesNumbered ==
    Written =>
        /\ "sources" \in DOMAIN gstate
        /\ Len(gstate.sources) = Len(gstate.search_results)
        /\ gstate.search_results = <<>> => gstate.sources = <<>>
        /\ \A i \in 1..Len(gstate.sources) :
              LET r == gstate.search_results[i]
                  number == IF i < 10
                            THEN <<"[", <<"1", "2", "3", "4", "5", "6", "7", "8", "9">>[i], "]", " ">>
                            ELSE <<"[", "1", <<"0", "1", "2", "3", "4", "5", "6", "7", "8", "9">>[i - 9], "]", " ">>
                  title == IF "title" \in DOMAIN r THEN r.title ELSE <<"N", "/", "A">>
                  url == IF "url" \in DOMAIN r THEN r.url ELSE <<"N", "/", "A">>
              IN gstate.sources[i] = number \o title \o <<" ", "-", " ">> \o url

\* the answer could not be generated and the sources of two results or more,
\* one of them without title, were returned all the same
C31_Witness ==
    /\ Written
    /\ gstate.answer = AnswerError
    /\ Len(gstate.sources) >= 2
    /\ \E i \in 1..Len(gstate.search_results) :
          "title" \notin DOMAIN gstate.search_results[i]

(* ------------------------------------------------------------------ *)
(* C32: the list a traversal run collects holds every item id at most  *)
(* once, for every item graph: also when two parents of one wave list  *)
(* the same child, and when two items of one wave list each other.     *)
(* ------------------------------------------------------------------ *)
C32_CollectedOnce == \A i \in Items : Count(comments, i) <= 1

(* ------------------------------------------------------------------ *)
(* C33: an item that was fetched and has no text is not added to the   *)
(* collected list; with include_replies its children are scheduled all *)
(* the same: each child that is not in the cache when the walk comes   *)
(* to it is appended to the next wave, and in the first run of a       *)
(* process every child of such an item has been submitted when         *)
(* fetch_comments returns.                                             *)
(* ------------------------------------------------------------------ *)
\* the items fetched in this run that have no text and are neither deleted
\* nor dead
FetchedWithoutText ==
    {it \in Items \ {Root} :
        /\ sched[it] >= 1
        /\ it \in DOMAIN ITEM_CACHE
        /\ it \notin world.text
        /\ it \notin world.deleted \cup world.dead}

C33_TextlessParentExpanded ==
    /\ [](\A k \in 1..Len(comments) : comments[k] \in world.text)
    /\ [][(pc = "collect" /\ cur # 0 /\ kidx' # kidx) =>
            LET child == world.kids[futures[cur].data][kidx]
            IN todo_ids' = IF child \in DOMAIN ITEM_CACHE THEN todo_ids
                           ELSE todo_ids \o <<child>>]_vars
    /\ []((pc = "returned" /\ runs = 1 /\ include_replies) =>
            \A it \in FetchedWithoutText :
               \A c \in Range(world.kids[it]) : c = Root \/ sched[c] >= 1)

\* item 102 has no text and lists 103: the run returned 103 and not 102
C33_Witness ==
    /\ pc = "returned"
    /\ runs = 1
    /\ include_replies
    /\ 102 \in FetchedWithoutText
    /\ world.kids[102] = <<103>>
    /\ sched[103] >= 1
    /\ 103 \in Range(comments)
    /\ 102 \notin Range(comments)

(* ------------------------------------------------------------------ *)
(* C34: breadth-first levels. The first wave submitted is the list of  *)
(* comment ids given, without repeats, each id at the place of its     *)
(* first occurrence; every id submitted in a later wave is listed in   *)
(* the kids of an item that a fetch of the wave before returned.       *)
(* ------------------------------------------------------------------ *)
\* the place of the first occurrence of id x in the list s
FirstAt(s, x) == CHOOSE k \in 1..Len(s) : s[k] = x /\ \A j \in 1..(k - 1) : s[j] # x

C34_BreadthFirstLevels ==
    [][Submission =>
          LET ids == [k \in 1..Len(futures') |-> futures'[k].cid]
          IN IF waveNo = 0
             THEN /\ Range(ids) = Range(comment_ids)
                  /\ \A a, b \in 1..Len(ids) :
                        a < b => /\ ids[a] # ids[b]
                                 /\ FirstAt(comment_ids, ids[a])
                                       < FirstAt(comment_ids, ids[b])
             ELSE \A k \in 1..Len(ids) :
                     \E g \in 1..Len(futures) :
                        /\ futures[g].kind = "dict"
                        /\ futures[g].st = "processed"
                        /\ \E j \in 1..Len(world.kids[futures[g].data]) :
                              world.kids[futures[g].data][j] = ids[k]
      ]_vars

\* the story lists 101 twice: the first wave was 101, 102 and the second wave,
\* now running, holds the kids of 101
C34_Witness ==
    /\ comment_ids = <<101, 102, 101>>
    /\ waveNo = 2
    /\ Len(futures) >= 1
    /\ \A k \in 1..Len(futures) : futures[k].cid \in Range(world.kids[101])
    /\ sched[101] = 1 /\ sched[102] = 1

(* ------------------------------------------------------------------ *)
(* C35: over any finite item graph, also one where items list each     *)
(* other or share a child, and in whatever order the fetches complete, *)
(* a call of fetch_comments that has started comes to its end; while   *)
(* the results of a wave are consumed, no id that is in the item cache *)
(* is added to the list of the next wave.                              *)
(* ------------------------------------------------------------------ *)
C35_TerminatesOnAnyGraph ==
    /\ InTraversal ~> Finished
    /\ [][(pc = "collect" /\ pc' = "collect") =>
             \A c \in DOMAIN ITEM_CACHE : Count(todo_ids', c) <= Count(todo_ids, c)]_vars

\* 101 and 102 list each other: the run has returned, and it needed a wave
\* after the first, so one of the two was met as a child
C35_Witness ==
    /\ pc = "returned"
    /\ include_replies
    /\ \E j \in 1..Len(world.kids[101]) : world.kids[101][j] = 102
    /\ \E j \in 1..Len(world.kids[102]) : world.kids[102][j] = 101
    /\ {101, 102} \subseteq DOMAIN ITEM_CACHE
    /\ {101, 102} \subseteq Range(comments)
    /\ waveNo >= 2

(* ------------------------------------------------------------------ *)
(* C36: during a traversal a step of a pool thread (a fetch_item call  *)
(* starting or ending) changes nothing but the item cache and its own  *)
(* future; the collected list and the list of the next wave change     *)
(* only in steps of the coordinating thread. A cache entry is added    *)
(* only by a fetch that ended with a dict, under the id that fetch was *)
(* for, and every entry holds the payload of the item of its own key.  *)
(* ------------------------------------------------------------------ *)
\* a pool thread takes a work item or ends its call of fetch_item
PoolStep ==
    /\ Len(futures') = Len(futures)
    /\ \E f \in 1..Len(futures) :
          /\ futures[f].st \in {"queued", "running"}
          /\ futures'[f].st \in {"running", "done"}
          /\ futures'[f].st # futures[f].st

C36_ThreadConfinement ==
    /\ [](\A i \in DOMAIN ITEM_CACHE : ITEM_CACHE[i] = i)
    /\ [][PoolStep =>
             /\ comments' = comments
             /\ todo_ids' = todo_ids
             /\ (cur' = cur /\ kidx' = kidx)
             /\ (pc' = pc /\ results' = results)]_vars
    /\ [][(pc \in {"collect", "raising"} /\ ITEM_CACHE' # ITEM_CACHE) =>
             \E f \in 1..Len(futures) :
                /\ futures[f].st = "running"
                /\ futures'[f].st = "done"
                /\ futures'[f].kind = "dict"
                /\ futures'[f].out = "dict"
                /\ ITEM_CACHE' = (futures[f].cid :> futures'[f].data) @@ ITEM_CACHE]_vars

\* a pool thread is inside fetch_item while the coordinating thread is in the
\* kids of a result it took: the cache holds what has been fetched, and both
\* lists have grown
C36_Witness ==
    /\ pc = "collect"
    /\ Running # {}
    /\ cur # 0
    /\ comments # <<>>
    /\ todo_ids # <<>>
    /\ \E i \in DOMAIN ITEM_CACHE : i # Root

(* ------------------------------------------------------------------ *)
(* C37: when --keywords gives at least one keyword, a collected        *)
(* comment is in the results exactly when its normalized text holds    *)
(* one of the keywords as a run of characters, letters compared        *)
(* without their case; a comment that only a built-in pattern matches  *)
(* is left out.                                                        *)
(* ------------------------------------------------------------------ *)
\* per keyword list and item: one of the keywords occurs in the item's
\* normalized text, both in lower case
HoldsKeyword ==
    [kw \in KeywordChoices |-> [id \in Items |->
        \E j \in DOMAIN kw :
            Contains(LowerText(strip_html(ItemText(id))), LowerText(kw[j]))]]

\* per item: some built-in pattern matches the item's normalized text
BuiltInMatch ==
    [id \in Items |-> MatchesCombined[<<>>][id]]

C38_CacheOnlyGrows ==
    [][DOMAIN ITEM_CACHE \subseteq DOMAIN ITEM_CACHE']_vars

\* a second run of the process is collecting: three items or more are cached,
\* one fetch of this run was answered from the cache and one went to the API
C38_Witness ==
    /\ pc = "collect"
    /\ runs = 2
    /\ Cardinality(DOMAIN ITEM_CACHE) >= 3
    /\ \E f \in 1..Len(futures) : futures[f].out = "hit"
    /\ \E f \in 1..Len(futures) : futures[f].out = "dict"

====
